---- MODULE Spec2Model ----
(***************************************************************************)
(* Model of the tag generation engine of bookmark-slack-bot               *)
(* (SophisticatedBedrockTagGenerator, src/unnamed/part_002 lines 99-535). *)
(*                                                                         *)
(* Strings are sequences of one-character strings, so that lowercasing,    *)
(* trimming, splitting and substring tests are computed, not assumed.      *)
(* Scores are kept in tenths (a perfect match is 150), because a fuzzy     *)
(* score is similarity / 10 and need not be whole.                         *)
(*                                                                         *)
(* Six specifications share the module:                                    *)
(*   Spec         one generateTags invocation after another                *)
(*   ServiceSpec  BookmarkService.createBookmark and                       *)
(*                CompleteBookmarkService.createBookmarkComplete over the  *)
(*                bookmarks table, one invocation after another            *)
(*   MatcherSpec  the scoring loops of findTagsByKeywordsWithScores, one   *)
(*                loop iteration a step                                    *)
(*   HandlerSpec  processBookmarkAsync of the public Lambda and its POSTs  *)
(*                to response_url                                          *)
(*   LambdaSpec   invokeLambda of the public Lambda against the handler of *)
(*                the private Lambda                                       *)
(*   PoolSpec     concurrent operations on one PostgresBookmarkRepository  *)
(*                and its connection pool                                  *)
(***************************************************************************)
EXTENDS Integers, Sequences, FiniteSets, TLC

(***************************************************************************)
(* Characters and strings                                                  *)
(***************************************************************************)
Letters == <<"a","b","c","d","e","f","g","h","i","j","k","l","m",
             "n","o","p","q","r","s","t","u","v","w","x","y","z">>

Capitals == <<"A","B","C","D","E","F","G","H","I","J","K","L","M",
              "N","O","P","Q","R","S","T","U","V","W","X","Y","Z">>

Digits == <<"0","1","2","3","4","5","6","7","8","9">>

IsLetter(c) == \E i \in 1..26 : Letters[i] = c

IsCapital(c) == \E i \in 1..26 : Capitals[i] = c

IsDigit(c) == \E i \in 1..10 : Digits[i] = c

\* String.prototype.toLowerCase on one character
ToLowerChar(c) ==
  IF IsCapital(c) THEN Letters[CHOOSE i \in 1..26 : Capitals[i] = c] ELSE c

\* the UTF-16 code unit of a character (the punctuation the model uses)
CharCode(c) ==
  IF IsCapital(c) THEN 64 + (CHOOSE i \in 1..26 : Capitals[i] = c)
  ELSE IF IsLetter(c) THEN 96 + (CHOOSE i \in 1..26 : Letters[i] = c)
  ELSE IF IsDigit(c) THEN 47 + (CHOOSE i \in 1..10 : Digits[i] = c)
  ELSE CASE c = " " -> 32
         [] c = "!" -> 33
         [] c = "&" -> 38
         [] c = "(" -> 40
         [] c = ")" -> 41
         [] c = "," -> 44
         [] c = "-" -> 45
         [] c = "." -> 46
         [] c = "/" -> 47
         [] c = ":" -> 58
         [] c = "?" -> 63
         [] c = "_" -> 95
         [] OTHER -> 126

\* the \s class of a regular expression, and what trim() removes
IsWhitespace(c) == c = " "

ToLowerCase(s) == [i \in 1..Len(s) |-> ToLowerChar(s[i])]

\* String.prototype.trim: what lies between the first and the last character
\* that is not whitespace
Trim(s) ==
  LET inked == {i \in 1..Len(s) : ~IsWhitespace(s[i])}
  IN  IF inked = {} THEN <<>>
      ELSE SubSeq(s, CHOOSE i \in inked : \A j \in inked : i <= j,
                     CHOOSE i \in inked : \A j \in inked : i >= j)

\* String.prototype.includes
Includes(s, sub) ==
  \E i \in 0..(Len(s) - Len(sub)) : SubSeq(s, i + 1, i + Len(sub)) = sub

\* Array.prototype.includes
ArrayIncludes(arr, x) == \E i \in 1..Len(arr) : arr[i] = x

\* Array.prototype.slice(0, end): a negative end counts from the end
Slice0(arr, end) ==
  LET e == IF end < 0 THEN Len(arr) + end ELSE end
      n == IF e < 0 THEN 0 ELSE IF e > Len(arr) THEN Len(arr) ELSE e
  IN  SubSeq(arr, 1, n)

(***************************************************************************)
(* Keyword Extractor: extractKeywords                                      *)
(***************************************************************************)
stopWords == {
    <<"t","h","e">>, <<"a","n","d">>, <<"f","o","r">>, <<"a","r","e">>,
    <<"b","u","t">>, <<"n","o","t">>, <<"y","o","u">>, <<"a","l","l">>,
    <<"c","a","n">>, <<"h","a","d">>, <<"h","e","r">>, <<"w","a","s">>,
    <<"o","n","e">>, <<"o","u","r">>, <<"o","u","t">>, <<"d","a","y">>,
    <<"g","e","t">>, <<"h","a","s">>, <<"h","i","m">>, <<"h","i","s">>,
    <<"h","o","w">>, <<"i","t","s">>, <<"m","a","y">>, <<"n","e","w">>,
    <<"n","o","w">>, <<"o","l","d">>, <<"s","e","e">>, <<"t","w","o">>,
    <<"w","h","o">>, <<"b","o","y">>, <<"d","i","d">>, <<"d","o","e","s">>,
    <<"l","e","t">>, <<"p","u","t">>, <<"s","a","y">>, <<"s","h","e">>,
    <<"t","o","o">>, <<"u","s","e">> }

\* the character class [\s/-_.,!?():] of the split pattern: inside a class
\* "/-_" is the range of code units from "/" (47) to "_" (95)
IsSeparator(c) ==
  \/ IsWhitespace(c)
  \/ (CharCode(c) >= CharCode("/") /\ CharCode(c) <= CharCode("_"))
  \/ c \in {".", ",", "!", "?", "(", ")", ":"}

\* the k-th smallest member of a set of numbers
Nth(S, k) == CHOOSE x \in S : Cardinality({y \in S : y < x}) = k - 1

\* String.prototype.split on one or more separators: the maximal runs of
\* characters that are no separators, in order, with an empty piece before a
\* leading separator and after a trailing one; the empty text gives one empty piece
Split(text) ==
  LET n == Len(text)
      sep(i) == IsSeparator(text[i])
      starts == {i \in 1..n : ~sep(i) /\ (i = 1 \/ sep(i - 1))}
      ends == {i \in 1..n : ~sep(i) /\ (i = n \/ sep(i + 1))}
      runs == [k \in 1..Cardinality(starts) |->
                 SubSeq(text, Nth(starts, k), Nth(ends, k))]
      lead == IF n > 0 /\ sep(1) THEN << <<>> >> ELSE <<>>
      trail == IF n > 0 /\ sep(n) THEN << <<>> >> ELSE <<>>
  IN  IF n = 0 THEN << <<>> >> ELSE lead \o runs \o trail

\* word.match(/^\d+$/)
IsNumber(word) == word # <<>> /\ \A i \in 1..Len(word) : IsDigit(word[i])

extractKeywords(text) ==
  LET words == Split(ToLowerCase(text))
      long  == SelectSeq(words, LAMBDA word : Len(word) > 2)
      nostop == SelectSeq(long, LAMBDA word : word \notin stopWords)
  IN  SelectSeq(nostop, LAMBDA word : ~IsNumber(word))

(***************************************************************************)
(* Lexical Matcher: isGrammaticalVariation, fuzzy ratio, scoring           *)
(***************************************************************************)
EndsWith(w, suffix) ==
  Len(w) >= Len(suffix) /\ SubSeq(w, Len(w) - Len(suffix) + 1, Len(w)) = suffix

DropLast(w, n) == SubSeq(w, 1, Len(w) - n)

\* wink-lemmatizer, reduced to its regular suffix rules: the plural "s" of a
\* noun, the "ing", "ed" and "s" of a verb, the "er" and "est" of an adjective
LemmaNoun(w) ==
  IF Len(w) > 3 /\ EndsWith(w, <<"s">>) /\ ~EndsWith(w, <<"s","s">>)
  THEN DropLast(w, 1) ELSE w

LemmaVerb(w) ==
  IF Len(w) > 5 /\ EndsWith(w, <<"i","n","g">>) THEN DropLast(w, 3)
  ELSE IF Len(w) > 4 /\ EndsWith(w, <<"e","d">>) THEN DropLast(w, 2)
  ELSE IF Len(w) > 3 /\ EndsWith(w, <<"s">>) /\ ~EndsWith(w, <<"s","s">>)
       THEN DropLast(w, 1)
  ELSE w

LemmaAdjective(w) ==
  IF Len(w) > 5 /\ EndsWith(w, <<"e","s","t">>) THEN DropLast(w, 3)
  ELSE IF Len(w) > 4 /\ EndsWith(w, <<"e","r">>) THEN DropLast(w, 2)
  ELSE w

isGrammaticalVariation(word1, word2) ==
  IF word1 = word2 THEN TRUE
  ELSE LET w1 == ToLowerCase(word1)
           w2 == ToLowerCase(word2)
           lemmas1 == {LemmaNoun(w1), LemmaVerb(w1), LemmaAdjective(w1)}
           lemmas2 == {LemmaNoun(w2), LemmaVerb(w2), LemmaAdjective(w2)}
       IN  lemmas1 \cap lemmas2 # {}

\* fuzzball's full_process: every character that is no letter or digit
\* becomes a space, then trim and lowercase
FullProcess(s) ==
  ToLowerCase(Trim([i \in 1..Len(s) |->
    IF IsLetter(s[i]) \/ IsCapital(s[i]) \/ IsDigit(s[i]) THEN s[i] ELSE " "]))

Max(a, b) == IF a >= b THEN a ELSE b

\* length of a longest common subsequence
RECURSIVE LCS(_, _)
LCS(a, b) ==
  IF a = <<>> \/ b = <<>> THEN 0
  ELSE IF Head(a) = Head(b) THEN 1 + LCS(Tail(a), Tail(b))
  ELSE Max(LCS(Tail(a), b), LCS(a, Tail(b)))

\* fuzz.ratio: round(100 * (lensum - distance) / lensum), where distance is the
\* edit distance with a substitution costing 2, that is lensum - 2 * LCS
FuzzRatio(s1, s2) ==
  LET a == FullProcess(s1)
      b == FullProcess(s2)
      lensum == Len(a) + Len(b)
  IN  IF a = <<>> \/ b = <<>> THEN 0
      ELSE (400 * LCS(a, b) + lensum) \div (2 * lensum)

\* scores are kept in tenths of a point
Tenths(points) == 10 * points

\* Map.prototype.has / get / set on a Map kept as the sequence of its
\* <<key, value>> entries in insertion order
MapHas(m, key) == \E i \in 1..Len(m) : m[i][1] = key

MapGet(m, key) == m[CHOOSE i \in 1..Len(m) : m[i][1] = key][2]

MapSet(m, key, value) ==
  IF MapHas(m, key)
  THEN [i \in 1..Len(m) |-> IF m[i][1] = key THEN <<key, value>> ELSE m[i]]
  ELSE Append(m, <<key, value>>)

\* tagScores.get(tag) || 0
ScoreIn(entries, tag) == IF MapHas(entries, tag) THEN MapGet(entries, tag) ELSE 0

\* the if / else-if chain that chooses scoreBoost for one keyword and one tag
scoreBoost(keyword, tag) ==
  IF keyword = tag THEN 15
  ELSE IF isGrammaticalVariation(keyword, tag) THEN 12
  ELSE IF Len(keyword) > 2 /\ Includes(tag, keyword) THEN 8
  ELSE IF Len(tag) > 2 /\ Includes(keyword, tag) THEN 5
  ELSE 0

\* the first inner loop: for every tag that keyword matches, the boost is added
\* to the tag's score, a tag without a score entering the Map at that moment.
\* The tags of a corpus are distinct (getExistingTags builds them from a Set),
\* so the loop visits every tag once, in order
BoostPass(tagScores, keyword, tags) ==
  LET boosted == [i \in 1..Len(tagScores) |->
                    LET tag == tagScores[i][1]
                        oldScore == tagScores[i][2]
                    IN  IF ArrayIncludes(tags, tag) /\ scoreBoost(keyword, tag) > 0
                        THEN <<tag, oldScore + Tenths(scoreBoost(keyword, tag))>>
                        ELSE tagScores[i]]
      added == SelectSeq(tags, LAMBDA tag :
                 ~MapHas(tagScores, tag) /\ scoreBoost(keyword, tag) > 0)
  IN  boosted \o [i \in 1..Len(added) |->
                    <<added[i], Tenths(scoreBoost(keyword, added[i]))>>]

\* the second inner loop: a tag that has no score gets similarity / 10 when the
\* similarity is at least 80
FuzzyPass(tagScores, keyword, tags) ==
  LET added == SelectSeq(tags, LAMBDA tag :
                 ~MapHas(tagScores, tag) /\ FuzzRatio(keyword, tag) >= 80)
  IN  tagScores \o [i \in 1..Len(added) |-> <<added[i], FuzzRatio(keyword, added[i])>>]

Front(arr) == SubSeq(arr, 1, Len(arr) - 1)

Last(arr) == arr[Len(arr)]

\* the outer loop, over the keywords in order
RECURSIVE ScoreKeywords(_, _, _)
ScoreKeywords(tagScores, keywords, tags) ==
  IF keywords = <<>> THEN tagScores
  ELSE LET keyword == Last(keywords)
       IN  FuzzyPass(
             BoostPass(ScoreKeywords(tagScores, Front(keywords), tags), keyword, tags),
             keyword, tags)

\* Array.prototype.sort by score descending; the sort is stable, so an entry
\* comes after the entries with a higher score and the earlier entries with
\* the same score
SortByScoreDesc(entries) ==
  LET n == Len(entries)
      place(i) == 1 + Cardinality({j \in 1..n : entries[j][2] > entries[i][2]})
                    + Cardinality({j \in 1..(i - 1) : entries[j][2] = entries[i][2]})
  IN  [p \in 1..n |-> entries[CHOOSE i \in 1..n : place(i) = p]]

TagsOf(entries) == [i \in 1..Len(entries) |-> entries[i][1]]

\* a team id that is undefined or empty: both are falsy in "if (teamId)"
NoTeam == ""

\* changed: the try / catch around getExistingTags is missing
Mutant_findTagsNoCatch(title, description, teamId, store) ==
  [threw |-> teamId # NoTeam /\ store.throws,
   called |-> teamId # NoTeam,
   scores |-> Slice0(SortByScoreDesc(
                ScoreKeywords(<<>>, extractKeywords(title \o <<" ">> \o description),
                              IF teamId # NoTeam /\ ~store.throws
                              THEN store.tags ELSE <<>>)), 6)]

\* store is the outcome of bookmarkRepository.getExistingTags(teamId), used only
\* when the call is made: [throws |-> BOOLEAN, tags |-> the tags it resolves to]
findTagsByKeywordsWithScores(title, description, teamId, store) ==
  LET content == title \o <<" ">> \o description
      keywords == extractKeywords(content)
      called == teamId # NoTeam
      existingTags == IF called /\ ~store.throws THEN store.tags ELSE <<>>
      tagScores == ScoreKeywords(<<>>, keywords, existingTags)
  IN  [threw |-> FALSE,
       called |-> called,
       scores |-> Slice0(SortByScoreDesc(tagScores), 6)]

(***************************************************************************)
(* Replies of the generative service                                       *)
(*   kind: "throws"    client.send rejects                                 *)
(*         "emptyBody" the response has no body                            *)
(*         "badBody"   the body is not the JSON the code reads             *)
(*         "noText"    content[0].text is missing or empty                 *)
(*         "noArray"   the text has no [...] region                        *)
(*         "badJson"   the [...] region is not valid JSON                  *)
(*         "array"     the [...] region decodes to the array elems         *)
(*   an element of elems is [type |-> "string" or "number", value |-> s]   *)
(***************************************************************************)
Reply(kind, elems) == [kind |-> kind, elems |-> elems]

Str(s) == [type |-> "string", value |-> s]

Num == [type |-> "number", value |-> <<>>]

StringsOf(elems) ==
  LET strs == SelectSeq(elems, LAMBDA e : e.type = "string")
  IN  [i \in 1..Len(strs) |-> strs[i].value]

(***************************************************************************)
(* Generative Tag Drafter: generateWithLLM                                 *)
(***************************************************************************)
\* changed: every failure of the draft call is swallowed into an empty draft
Mutant_generateWithLLMSwallow(reply) ==
  IF reply.kind # "array" THEN [threw |-> FALSE, tags |-> <<>>]
  ELSE LET tags == StringsOf(reply.elems)
           lowered == [i \in 1..Len(tags) |-> Trim(ToLowerCase(tags[i]))]
           kept == SelectSeq(lowered, LAMBDA tag : Len(tag) > 0 /\ Len(tag) <= 50)
       IN  [threw |-> FALSE, tags |-> Slice0(kept, 10)]

\* changed: the draft is not cut to 10 tags
Mutant_generateWithLLMNoSlice(reply) ==
  IF reply.kind \in {"throws", "emptyBody", "badBody", "noText", "badJson"}
  THEN [threw |-> TRUE, tags |-> <<>>]
  ELSE IF reply.kind = "noArray"
  THEN [threw |-> FALSE, tags |-> <<>>]
  ELSE LET tags == StringsOf(reply.elems)
           lowered == [i \in 1..Len(tags) |-> Trim(ToLowerCase(tags[i]))]
       IN  [threw |-> FALSE,
            tags |-> SelectSeq(lowered, LAMBDA tag : Len(tag) > 0 /\ Len(tag) <= 50)]

generateWithLLM(reply) ==
  IF reply.kind \in {"throws", "emptyBody", "badBody", "noText", "badJson"}
  THEN [threw |-> TRUE, tags |-> <<>>]
  ELSE IF reply.kind = "noArray"
  THEN [threw |-> FALSE, tags |-> <<>>]
  ELSE LET tags == StringsOf(reply.elems)
           lowered == [i \in 1..Len(tags) |-> Trim(ToLowerCase(tags[i]))]
           kept == SelectSeq(lowered, LAMBDA tag : Len(tag) > 0 /\ Len(tag) <= 50)
       IN  [threw |-> FALSE, tags |-> Slice0(kept, 10)]

(***************************************************************************)
(* Specificity Filter: filterTagsBySpecificity                             *)
(***************************************************************************)
protectedTagsOf(tags, existingMatches) ==
  SelectSeq(tags, LAMBDA tag : ArrayIncludes(existingMatches, tag))

candidateTagsOf(tags, existingMatches) ==
  SelectSeq(tags, LAMBDA tag : ~ArrayIncludes(existingMatches, tag))

\* the early returns before the service call
FilterCallsService(tags, existingMatches) ==
  tags # <<>> /\ candidateTagsOf(tags, existingMatches) # <<>>

\* changed: no fallback to the original tags when nothing is left
Mutant_filterNoFallback(tags, existingMatches, reply) ==
  IF ~FilterCallsService(tags, existingMatches) \/ reply.kind # "array"
  THEN [threw |-> FALSE, tags |-> tags]
  ELSE [threw |-> FALSE,
        tags |-> protectedTagsOf(tags, existingMatches) \o StringsOf(reply.elems)]

\* changed: the try / catch around the service call and the decoding is missing
Mutant_filterNoCatch(tags, existingMatches, reply) ==
  IF ~FilterCallsService(tags, existingMatches) \/ reply.kind \in {"emptyBody", "noText", "noArray"}
  THEN [threw |-> FALSE, tags |-> tags]
  ELSE IF reply.kind \in {"throws", "badBody", "badJson"}
  THEN [threw |-> TRUE, tags |-> <<>>]
  ELSE LET finalTags == protectedTagsOf(tags, existingMatches)
                          \o StringsOf(reply.elems)
       IN  [threw |-> FALSE,
            tags |-> IF finalTags = <<>> THEN tags ELSE finalTags]

\* changed: the protected tags are not put back in front of the survivors
Mutant_filterDropsProtected(tags, existingMatches, reply) ==
  IF ~FilterCallsService(tags, existingMatches) \/ reply.kind # "array"
  THEN [threw |-> FALSE, tags |-> tags]
  ELSE LET finalTags == StringsOf(reply.elems)
       IN  [threw |-> FALSE,
            tags |-> IF finalTags = <<>> THEN tags ELSE finalTags]

\* reply is read only when the service is called
filterTagsBySpecificity(tags, existingMatches, reply) ==
  IF ~FilterCallsService(tags, existingMatches)
  THEN [threw |-> FALSE, tags |-> tags]
  ELSE IF reply.kind # "array"
  THEN [threw |-> FALSE, tags |-> tags]
  ELSE LET finalTags == protectedTagsOf(tags, existingMatches)
                          \o StringsOf(reply.elems)
       IN  [threw |-> FALSE,
            tags |-> IF finalTags = <<>> THEN tags ELSE finalTags]

(***************************************************************************)
(* Hybrid Reconciler: addHighScoringExistingTags                           *)
(***************************************************************************)
HIGH_SCORE_THRESHOLD == 15

MAX_TOTAL_TAGS == 6

\* changed: the threshold is compared with > instead of >=
Mutant_addHighScoringStrict(currentTags, existingMatchesWithScores) ==
  LET high == SelectSeq(existingMatchesWithScores,
                        LAMBDA e : e[2] > Tenths(HIGH_SCORE_THRESHOLD))
      missing == SelectSeq(high, LAMBDA e : ~ArrayIncludes(currentTags, e[1]))
      highScoringMissing == TagsOf(SortByScoreDesc(missing))
      additionalTags == Slice0(highScoringMissing, MAX_TOTAL_TAGS - Len(currentTags))
  IN  currentTags \o additionalTags

addHighScoringExistingTags(currentTags, existingMatchesWithScores) ==
  LET high == SelectSeq(existingMatchesWithScores,
                        LAMBDA e : e[2] >= Tenths(HIGH_SCORE_THRESHOLD))
      missing == SelectSeq(high, LAMBDA e : ~ArrayIncludes(currentTags, e[1]))
      highScoringMissing == TagsOf(SortByScoreDesc(missing))
      additionalTags == Slice0(highScoringMissing, MAX_TOTAL_TAGS - Len(currentTags))
  IN  currentTags \o additionalTags

(***************************************************************************)
(* Orchestrator: generateTags                                              *)
(***************************************************************************)
\* the manual-tags branch of generateTags
combinedTags(manualTags, generatedTags) == Slice0(manualTags \o generatedTags, 8)

(***************************************************************************)
(* Request validation and sanitizing: validateUrl,                         *)
(* validateBookmarkCreateRequest, sanitizeBookmark                         *)
(***************************************************************************)
StartsWith(s, prefix) ==
  Len(s) >= Len(prefix) /\ SubSeq(s, 1, Len(prefix)) = prefix

s_http == <<"h","t","t","p",":","/","/">>

s_https == <<"h","t","t","p","s",":","/","/">>

s_ftp == <<"f","t","p",":","/","/">>

\* new URL(url) does not throw: url starts with a scheme of letters and a
\* colon, and after the "//" of an http, https or ftp URL comes a host, in
\* which no space may occur
URLParses(url) ==
  \E k \in 2..Len(url) :
    /\ url[k] = ":"
    /\ \A i \in 1..(k - 1) : IsLetter(ToLowerChar(url[i]))
    /\ LET special == \E p \in {s_http, s_https, s_ftp} : StartsWith(ToLowerCase(url), p)
           host == SubSeq(url, k + 3, Len(url))
       IN  special => (host # <<>> /\ host[1] # "/" /\ \A i \in 1..Len(host) : host[i] # " ")

validateUrl(url) ==
  URLParses(url) /\ (StartsWith(url, s_http) \/ StartsWith(url, s_https))

\* changed: the length of a manual tag is not checked
Mutant_validateNoTagLength(request) ==
  IF request.url = <<>> THEN "url"
  ELSE IF ~validateUrl(request.url) THEN "url"
  ELSE IF request.userId = <<>> \/ Trim(request.userId) = <<>> THEN "userId"
  ELSE IF request.channelId = <<>> \/ Trim(request.channelId) = <<>> THEN "channelId"
  ELSE IF request.hasManualTags /\ Len(request.manualTags) > 10 THEN "manualTags"
  ELSE IF request.hasManualTags
          /\ \E i \in 1..Len(request.manualTags) :
               \/ request.manualTags[i] = <<>>
               \/ Trim(request.manualTags[i]) = <<>>
       THEN "manualTags"
  ELSE "ok"

\* a request is [url, userId, channelId, teamId, hasManualTags, manualTags];
\* an absent string field is the empty string (both are falsy)
\* the field validateBookmarkCreateRequest throws a ValidationError for, or
\* "ok" when it returns
validateBookmarkCreateRequest(request) ==
  IF request.url = <<>> THEN "url"
  ELSE IF ~validateUrl(request.url) THEN "url"
  ELSE IF request.userId = <<>> \/ Trim(request.userId) = <<>> THEN "userId"
  ELSE IF request.channelId = <<>> \/ Trim(request.channelId) = <<>> THEN "channelId"
  ELSE IF request.hasManualTags /\ Len(request.manualTags) > 10 THEN "manualTags"
  ELSE IF request.hasManualTags
          /\ \E i \in 1..Len(request.manualTags) :
               \/ request.manualTags[i] = <<>>
               \/ Trim(request.manualTags[i]) = <<>>
               \/ Len(request.manualTags[i]) > 50
       THEN "manualTags"
  ELSE "ok"

\* tags.map(tag => tag.trim().toLowerCase()).filter(Boolean)
sanitizeTags(tags) ==
  SelectSeq([i \in 1..Len(tags) |-> ToLowerCase(Trim(tags[i]))], LAMBDA tag : tag # <<>>)

sanitizeBookmark(bookmark) ==
  [bookmark EXCEPT
     !.tags = sanitizeTags(bookmark.tags),
     !.manualTags = IF bookmark.hasManualTags THEN sanitizeTags(bookmark.manualTags)
                    ELSE bookmark.manualTags,
     !.title = Trim(bookmark.title),
     !.description = Trim(bookmark.description),
     !.userId = Trim(bookmark.userId),
     !.channelId = Trim(bookmark.channelId),
     !.teamId = Trim(bookmark.teamId)]

(***************************************************************************)
(* Bookmark table of PostgresBookmarkRepository: url is UNIQUE             *)
(***************************************************************************)
\* the row findByUrl selects: WHERE url = $1 AND user_id = $2
RowsByUrl(table, url, userId) == {row \in table : row.url = url /\ row.userId = userId}

\* save: INSERT ... ON CONFLICT (url) DO UPDATE SET title, description, tags,
\* manual_tags; the row that owns the url keeps its id, user, team and channel
saveRow(table, bookmark) ==
  LET old == {row \in table : row.url = bookmark.url}
      teamId == IF bookmark.teamId # <<>> THEN bookmark.teamId ELSE bookmark.userId
      inserted == [id |-> Cardinality(table) + 1, url |-> bookmark.url,
                   title |-> bookmark.title, description |-> bookmark.description,
                   tags |-> bookmark.tags, hasManualTags |-> bookmark.hasManualTags,
                   manualTags |-> bookmark.manualTags, userId |-> bookmark.userId,
                   teamId |-> teamId, channelId |-> bookmark.channelId]
      updated(row) == [row EXCEPT !.title = bookmark.title,
                                  !.description = bookmark.description,
                                  !.tags = bookmark.tags,
                                  !.hasManualTags = bookmark.hasManualTags,
                                  !.manualTags = bookmark.manualTags]
  IN  IF old = {} THEN table \cup {inserted}
      ELSE (table \ old) \cup {updated(row) : row \in old}

\* the row save returns (RETURNING ...)
savedRow(table, bookmark) ==
  CHOOSE row \in saveRow(table, bookmark) : row.url = bookmark.url

(***************************************************************************)
(* BookmarkService.createBookmark and                                      *)
(* CompleteBookmarkService.createBookmarkComplete                          *)
(***************************************************************************)
\* [...new Set(allTags)]: the first occurrence of every distinct string
uniqueTags(allTags) ==
  LET keep == {i \in 1..Len(allTags) : \A j \in 1..(i - 1) : allTags[j] # allTags[i]}
  IN  [k \in 1..Cardinality(keep) |-> allTags[Nth(keep, k)]]

s_Untitled == <<"U","n","t","i","t","l","e","d">>

\* the object handed to save, from the request, the title and description in
\* use, the team id in use and what generateTags resolved to
bookmarkData(request, title, description, teamId, generatedTags) ==
  LET allTags == (IF request.hasManualTags THEN request.manualTags ELSE <<>>)
                   \o generatedTags
  IN  sanitizeBookmark(
        [url |-> request.url,
         title |-> IF title # <<>> THEN title ELSE s_Untitled,
         description |-> description,
         tags |-> uniqueTags(allTags),
         hasManualTags |-> request.hasManualTags,
         manualTags |-> request.manualTags,
         userId |-> request.userId,
         teamId |-> teamId,
         channelId |-> request.channelId])

(***************************************************************************)
(* Bounds and the inputs the model draws from                              *)
(***************************************************************************)
\* longest array of arbitrary elements in a draft reply
MaxDraftReplyLen == 2

\* longest array of arbitrary elements in a filter reply
MaxFilterReplyLen == 1

\* length of the long draft reply (more tags than MAX_TOTAL_TAGS)
ManyDraftTags == 7

\* number of corpus tags that can all reach the high score threshold
ManyCorpusTags == 7

\* length of the long manual tag list (validation admits up to 10)
ManyManualTags == 9

\* the length of a decoded draft array of which more than 10 elements are kept
LongDraftLen == 14

w_react == <<"r","e","a","c","t">>

w_React == <<"R","e","a","c","t">>

w_hook == <<"h","o","o","k">>

w_hooks == <<"h","o","o","k","s">>

w_reach == <<"r","e","a","c","h">>

w_act == <<"a","c","t">>

w_css == <<"c","s","s">>

w_vue == <<"v","u","e">>

w_clean == <<"c","l","e","a","n">>

w_Clean == <<" ","C","l","e","a","n"," ">>

w_extra == <<"e","x","t","r","a">>

t_ReactHooks == <<"R","e","a","c","t"," ","H","o","o","k","s">>

t_dash == <<"v","u","e","-","c","s","s"," ","a","p","i">>

t_empty == <<>>

d_reactApi == <<"r","e","a","c","t"," ","a","p","i">>

Titles == {t_ReactHooks, t_dash, t_empty}

Descriptions == {t_empty, d_reactApi}

TeamIds == {NoTeam, "T1"}

\* n distinct tags that contain "react": "reacta", "reactb", ...
ReactTags(n) == [i \in 1..n |-> w_react \o <<Letters[i]>>]

\* what getExistingTags resolves to for team T1: distinct tags
Corpora == { <<w_react, w_hook, w_reach, w_act>>,
             <<w_css, w_vue>> \o ReactTags(ManyCorpusTags) }

\* n distinct two-letter tags "aa", "bb", ...
ManyTags(n) == [i \in 1..n |-> <<Letters[i], Letters[i]>>]

\* options.manualTags; an absent list and an empty one take the same branch
ManualTagLists == { <<>>, <<w_React>>, <<w_React, w_clean>>, ManyTags(ManyManualTags) }

\* the existingTags argument of generateTags
ExistingTagsHints == { <<>>, <<w_clean>> }

SeqsUpTo(S, n) == UNION {[1..k -> S] : k \in 0..n}

FailureKinds == {"throws", "emptyBody", "badBody", "noText", "noArray", "badJson"}

DraftElems == {Str(w_React), Str(w_Clean), Num}

\* a tag of n characters
LongTag(n) == [i \in 1..n |-> "a"]

\* a decoded array of LongDraftLen elements: a padded capitalised tag, a tag
\* of 51 characters, a blank string, a number, then two-letter tags
LongDraft ==
  [i \in 1..LongDraftLen |->
     IF i = 1 THEN Str(w_Clean)
     ELSE IF i = 2 THEN Str(LongTag(51))
     ELSE IF i = 3 THEN Str(<<" ">>)
     ELSE IF i = 4 THEN Num
     ELSE Str(ManyTags(LongDraftLen)[i])]

DraftReplies ==
  {Reply(kind, <<>>) : kind \in FailureKinds}
    \cup {Reply("array", elems) : elems \in SeqsUpTo(DraftElems, MaxDraftReplyLen)}
    \cup {Reply("array", [i \in 1..ManyDraftTags |-> Str(ManyTags(ManyDraftTags)[i])])}
    \cup {Reply("array", LongDraft)}

FilterElems == {Str(w_clean), Str(w_extra), Num}

FilterReplies ==
  {Reply(kind, <<>>) : kind \in FailureKinds}
    \cup {Reply("array", elems) : elems \in SeqsUpTo(FilterElems, MaxFilterReplyLen)}

NoReply == Reply("none", <<>>)

(***************************************************************************)
(* State                                                                   *)
(***************************************************************************)
VARIABLES
  corpus,       \* the tags the Tag Corpus Store holds for team T1
  pc,           \* where the generateTags invocation is:
                \*   "idle", "awaitStore", "awaitDraft", "awaitFilter",
                \*   "done" (resolved), "rejected"
  req,          \* the arguments of the invocation
  existingMatchesWithScores,  \* local of generateTagsInternal
  initialTags,  \* local of generateTagsInternal: the draft
  filteredTags, \* local of generateTagsInternal
  hybridTags,   \* local of generateTagsInternal: its return value
  result,       \* what generateTags resolves to
  storeReply,   \* how the getExistingTags call settled: "none", "tags", "throws"
  draftReply,   \* the reply the draft call received
  filterReply,  \* the reply the filter call received
  log,          \* the collaborator calls and stages of the invocation, in order
  \* createBookmark / createBookmarkComplete and the bookmark table
  bookmarks,    \* the rows of the bookmarks table
  svcPc,        \* where the invocation is: "idle", "awaitFindByUrl",
                \*   "awaitMetadata", "awaitSeedTags", "awaitGenerate",
                \*   "awaitSave", "resolved", "rejected"
  svcKind,      \* "create" (BookmarkService) or "complete" (CompleteBookmarkService)
  svcReq,       \* the request or payload
  svcMeta,      \* title and description in use
  svcTeamId,    \* the team id in use
  svcData,      \* the object handed to save: {} or {bookmarkData}
  svcCalls,     \* the collaborator calls of the invocation, in order
  svcOutcome,   \* "none", "returned", "ValidationError", "DatabaseError",
                \*   "MetadataError", "GenerationError"
  svcReturned,  \* the bookmark the invocation resolved to: {} or {bookmark}
  svcBefore,    \* the table when the invocation started
  savesOk,      \* per <<url, userId>>: the save calls that resolved so far
  requestsMade, \* invocations so far
  \* the scoring loops of findTagsByKeywordsWithScores, one iteration a step
  mPc,          \* "idle", "boost" (first inner loop), "fuzzy" (second inner
                \*   loop), "sort", "done"
  mOptions,     \* options of generateTagsInternal: url, title, description
  mKeywords,    \* keywords
  mTags,        \* existingTags
  mK,           \* index of the keyword of the outer loop
  mT,           \* index of the tag of the inner loop
  tagScores,    \* the Map tagScores, entries in insertion order
  mVisits,      \* every iteration of the first inner loop so far:
                \*   [k, tag, boost, oldScore]
  mFuzzy,       \* every tagScores.set of the second inner loop so far:
                \*   [k, tag, had, score]
  mResult,      \* the returned list
  \* --- processBookmarkAsync of the public Lambda ---
  hPc,          \* "idle", "awaitCreate", "awaitSuccessPost", "awaitErrorPost",
                \*   "resolved", "rejected"
  hCommand,     \* event.command
  hRequest,     \* the BookmarkCreateRequest built from the command
  hSaved,       \* createBookmark resolved with a bookmark
  hPosts,       \* the POSTs sent to response_url, in order: [kind, outcome]
  eventsMade,   \* process_bookmark events handled so far
  \* --- invokeLambda of the public Lambda and the private Lambda handler ---
  lPc,          \* "idle", "sent", "awaitRepository", "responded", "settled"
  lRequest,     \* the operation of the LambdaRequest
  lHandler,     \* how the private handler ended: [threw, response]
  lOutcome,     \* how invokeLambda settled: [kind, data, message]
  invokesMade,  \* invokeLambda calls so far
  \* --- one PostgresBookmarkRepository instance ---
  pool,         \* this.pool: 0 for null, else the number of the Pool
  poolsBuilt,   \* Pools constructed since construction or the last close()
  closePc,      \* "idle" or "awaitEnd": close() is awaiting pool.end()
  opPc,         \* per operation: "idle", "awaitCredentials", "awaitConnect",
                \*   "awaitQuery", "resolved", "rejected"
  opPool,       \* per operation: the Pool getPool returned, 0 for none
  opClient,     \* per operation: the client pool.connect() gave, 0 for none
  released,     \* per client: the number of release() calls
  opsStarted    \* repository operations started so far

taggerVars == <<corpus, pc, req, existingMatchesWithScores, initialTags, filteredTags,
                hybridTags, result, storeReply, draftReply, filterReply, log>>

serviceVars == <<bookmarks, svcPc, svcKind, svcReq, svcMeta, svcTeamId, svcData,
                 svcCalls, svcOutcome, svcReturned, svcBefore, savesOk, requestsMade>>

matcherVars == <<mPc, mOptions, mKeywords, mTags, mK, mT, tagScores, mVisits, mFuzzy, mResult>>

handlerVars == <<hPc, hCommand, hRequest, hSaved, hPosts, eventsMade>>

\* the state of the two Lambda functions around the services
lambdaVars == <<lPc, lRequest, lHandler, lOutcome, invokesMade>>

poolVars == <<pool, poolsBuilt, closePc, opPc, opPool, opClient, released, opsStarted>>

edgeVars == <<handlerVars, lambdaVars, poolVars>>

vars == <<taggerVars, serviceVars, matcherVars, edgeVars>>

Event(op, arg) == [op |-> op, arg |-> arg]

NoRequest ==
  [title |-> <<>>, description |-> <<>>, teamId |-> NoTeam,
   manualTags |-> <<>>, existingTags |-> <<>>]

existingMatches == TagsOf(existingMatchesWithScores)

Logged(op) == \E i \in 1..Len(log) : log[i].op = op

\* no generateTags invocation is running
TaggerIdle ==
  /\ pc = "idle"
  /\ req = NoRequest
  /\ existingMatchesWithScores = <<>>
  /\ initialTags = <<>>
  /\ filteredTags = <<>>
  /\ hybridTags = <<>>
  /\ result = <<>>
  /\ storeReply = "none"
  /\ draftReply = NoReply
  /\ filterReply = NoReply
  /\ log = <<>>

NoBookmarkRequest ==
  [url |-> <<>>, userId |-> <<>>, channelId |-> <<>>, teamId |-> <<>>,
   hasManualTags |-> FALSE, manualTags |-> <<>>]

NoMetadata == [title |-> <<>>, description |-> <<>>]

\* no createBookmark invocation is running and the table is empty
ServiceIdle ==
  /\ bookmarks = {}
  /\ svcPc = "idle"
  /\ svcKind = "create"
  /\ svcReq = NoBookmarkRequest
  /\ svcMeta = NoMetadata
  /\ svcTeamId = <<>>
  /\ svcData = {}
  /\ svcCalls = <<>>
  /\ svcOutcome = "none"
  /\ svcReturned = {}
  /\ svcBefore = {}
  /\ savesOk = <<>>
  /\ requestsMade = 0

NoOptions == [url |-> <<>>, title |-> <<>>, description |-> <<>>]

\* no scoring is running
MatcherIdle ==
  /\ mPc = "idle"
  /\ mOptions = NoOptions
  /\ mKeywords = <<>>
  /\ mTags = <<>>
  /\ mK = 1
  /\ mT = 1
  /\ tagScores = <<>>
  /\ mVisits = <<>>
  /\ mFuzzy = <<>>
  /\ mResult = <<>>

NoCommand == [text |-> <<>>, user_id |-> <<>>]

\* no process_bookmark event is being handled
HandlerIdle ==
  /\ hPc = "idle"
  /\ hCommand = NoCommand
  /\ hRequest = NoBookmarkRequest
  /\ hSaved = FALSE
  /\ hPosts = <<>>

LambdaResponse(success, data, error) == [success |-> success, data |-> data, error |-> error]

NoLambdaResponse == LambdaResponse(FALSE, "none", "none")

NoHandlerRun == [threw |-> FALSE, response |-> NoLambdaResponse]

NoOutcome == [kind |-> "none", data |-> "none", message |-> "none"]

\* no invokeLambda call is in progress
LambdaIdle ==
  /\ lPc = "idle"
  /\ lRequest = "none"
  /\ lHandler = NoHandlerRun
  /\ lOutcome = NoOutcome

\* the concurrent repository operations
MaxOps == 2

Ops == 1..MaxOps

\* a repository just constructed: no Pool, no operation running
PoolIdle ==
  /\ pool = 0
  /\ poolsBuilt = 0
  /\ closePc = "idle"
  /\ opPc = [p \in Ops |-> "idle"]
  /\ opPool = [p \in Ops |-> 0]
  /\ opClient = [p \in Ops |-> 0]
  /\ released = <<>>
  /\ opsStarted = 0

EdgeIdle ==
  /\ HandlerIdle /\ eventsMade = 0
  /\ LambdaIdle /\ invokesMade = 0
  /\ PoolIdle

Init ==
  /\ corpus \in Corpora
  /\ TaggerIdle
  /\ ServiceIdle
  /\ MatcherIdle
  /\ EdgeIdle

(***************************************************************************)
(* Actions: one per stretch of generateTags between two awaited calls      *)
(***************************************************************************)
\* changed: without a team id the existingTags argument is taken as the matches
Mutant_GenerateTagsUsesHint(title, description, teamId, manualTags, existingTags) ==
  LET scored == findTagsByKeywordsWithScores(title, description, teamId,
                                             [throws |-> FALSE, tags |-> <<>>])
  IN
  /\ pc = "idle"
  /\ req' = [title |-> title, description |-> description, teamId |-> teamId,
             manualTags |-> manualTags, existingTags |-> existingTags]
  /\ IF scored.called
     THEN /\ pc' = "awaitStore"
          /\ log' = <<Event("getExistingTags", <<teamId>>)>>
          /\ UNCHANGED existingMatchesWithScores
     ELSE /\ pc' = "awaitDraft"
          /\ existingMatchesWithScores' =
               [i \in 1..Len(existingTags) |-> <<existingTags[i], 0>>]
          /\ log' = <<Event("draft", existingTags)>>
  /\ UNCHANGED <<corpus, initialTags, filteredTags, hybridTags, result,
                 storeReply, draftReply, filterReply>>
  /\ UNCHANGED <<serviceVars, matcherVars, edgeVars>>

\* generateTags is called; it runs up to its first awaited call, which is
\* getExistingTags when a team id is given and the draft call otherwise
GenerateTags(title, description, teamId, manualTags, existingTags) ==
  LET scored == findTagsByKeywordsWithScores(title, description, teamId,
                                             [throws |-> FALSE, tags |-> <<>>])
  IN
  /\ pc = "idle"
  /\ req' = [title |-> title, description |-> description, teamId |-> teamId,
             manualTags |-> manualTags, existingTags |-> existingTags]
  /\ IF scored.called
     THEN /\ pc' = "awaitStore"
          /\ log' = <<Event("getExistingTags", <<teamId>>)>>
          /\ UNCHANGED existingMatchesWithScores
     ELSE /\ pc' = "awaitDraft"
          /\ existingMatchesWithScores' = scored.scores
          /\ log' = <<Event("draft", TagsOf(scored.scores))>>
  /\ UNCHANGED <<corpus, initialTags, filteredTags, hybridTags, result,
                 storeReply, draftReply, filterReply>>
  /\ UNCHANGED <<serviceVars, matcherVars, edgeVars>>

\* changed: the draft call is issued with the matches as they are before scoring
Mutant_StoreReplyDraftsBeforeScoring(throws) ==
  LET scored == findTagsByKeywordsWithScores(req.title, req.description, req.teamId,
                                             [throws |-> throws, tags |-> corpus])
  IN
  /\ pc = "awaitStore"
  /\ storeReply' = IF throws THEN "throws" ELSE "tags"
  /\ IF scored.threw
     THEN /\ pc' = "rejected"
          /\ UNCHANGED <<existingMatchesWithScores, log>>
     ELSE /\ pc' = "awaitDraft"
          /\ existingMatchesWithScores' = scored.scores
          /\ log' = Append(log, Event("draft", TagsOf(existingMatchesWithScores)))
  /\ UNCHANGED <<corpus, req, initialTags, filteredTags, hybridTags, result,
                 draftReply, filterReply>>
  /\ UNCHANGED <<serviceVars, matcherVars, edgeVars>>

\* getExistingTags settles; scoring runs and the draft call is issued
StoreReply(throws) ==
  LET scored == findTagsByKeywordsWithScores(req.title, req.description, req.teamId,
                                             [throws |-> throws, tags |-> corpus])
  IN
  /\ pc = "awaitStore"
  /\ storeReply' = IF throws THEN "throws" ELSE "tags"
  /\ IF scored.threw
     THEN /\ pc' = "rejected"
          /\ UNCHANGED <<existingMatchesWithScores, log>>
     ELSE /\ pc' = "awaitDraft"
          /\ existingMatchesWithScores' = scored.scores
          /\ log' = Append(log, Event("draft", TagsOf(scored.scores)))
  /\ UNCHANGED <<corpus, req, initialTags, filteredTags, hybridTags, result,
                 draftReply, filterReply>>
  /\ UNCHANGED <<serviceVars, matcherVars, edgeVars>>

\* what generateTags resolves to, given the result of generateTagsInternal
generateTagsResult(manualTags, generatedTags) ==
  IF manualTags # <<>> THEN combinedTags(manualTags, generatedTags)
  ELSE generatedTags

\* the rest of generateTagsInternal and generateTags once the filter has
\* returned: reconciliation, then the manual tags
Complete(filtered) ==
  LET hybrid == addHighScoringExistingTags(filtered, existingMatchesWithScores)
  IN
  /\ filteredTags' = filtered
  /\ hybridTags' = hybrid
  /\ result' = generateTagsResult(req.manualTags, hybrid)
  /\ pc' = "done"

\* the draft call settles
DraftReply(reply) ==
  LET draft == generateWithLLM(reply)
      noCall == filterTagsBySpecificity(draft.tags, existingMatches, NoReply)
  IN
  /\ pc = "awaitDraft"
  /\ draftReply' = reply
  /\ IF draft.threw
     THEN /\ pc' = "rejected"
          /\ UNCHANGED <<initialTags, filteredTags, hybridTags, result, log>>
     ELSE /\ initialTags' = draft.tags
          /\ IF FilterCallsService(draft.tags, existingMatches)
             THEN /\ pc' = "awaitFilter"
                  /\ log' = Append(log, Event("filter",
                                     candidateTagsOf(draft.tags, existingMatches)))
                  /\ UNCHANGED <<filteredTags, hybridTags, result>>
             ELSE /\ Complete(noCall.tags)
                  /\ log' = Append(log, Event("reconcile", noCall.tags))
  /\ UNCHANGED <<corpus, req, existingMatchesWithScores, storeReply, filterReply>>
  /\ UNCHANGED <<serviceVars, matcherVars, edgeVars>>

\* the filter call settles
FilterReply(reply) ==
  LET filtered == filterTagsBySpecificity(initialTags, existingMatches, reply)
  IN
  /\ pc = "awaitFilter"
  /\ filterReply' = reply
  /\ IF filtered.threw
     THEN /\ pc' = "rejected"
          /\ UNCHANGED <<filteredTags, hybridTags, result, log>>
     ELSE /\ Complete(filtered.tags)
          /\ log' = Append(log, Event("reconcile", filtered.tags))
  /\ UNCHANGED <<corpus, req, existingMatchesWithScores, initialTags,
                 storeReply, draftReply>>
  /\ UNCHANGED <<serviceVars, matcherVars, edgeVars>>

\* the caller has taken the settled promise; the invocation's locals are gone
Return ==
  /\ pc \in {"done", "rejected"}
  /\ pc' = "idle"
  /\ req' = NoRequest
  /\ existingMatchesWithScores' = <<>>
  /\ initialTags' = <<>>
  /\ filteredTags' = <<>>
  /\ hybridTags' = <<>>
  /\ result' = <<>>
  /\ storeReply' = "none"
  /\ draftReply' = NoReply
  /\ filterReply' = NoReply
  /\ log' = <<>>
  /\ UNCHANGED corpus
  /\ UNCHANGED <<serviceVars, matcherVars, edgeVars>>

Next ==
  \/ \E title \in Titles, description \in Descriptions, teamId \in TeamIds,
        manualTags \in ManualTagLists, existingTags \in ExistingTagsHints :
       GenerateTags(title, description, teamId, manualTags, existingTags)
  \/ \E throws \in BOOLEAN : StoreReply(throws)
  \/ \E reply \in DraftReplies : DraftReply(reply)
  \/ \E reply \in FilterReplies : FilterReply(reply)
  \/ Return

Spec == Init /\ [][Next]_vars

(***************************************************************************)
(* Inputs of createBookmark / createBookmarkComplete                       *)
(***************************************************************************)
\* invocations in one behaviour
MaxRequests == 3

u_url == <<"h","t","t","p","s",":","/","/","a",".","i","o">>

u_ftp == <<"f","t","p",":","/","/","a",".","i","o">>

u_nohost == <<"h","t","t","p",":","/","/">>

u_word == <<"a",".","i","o">>

id_U1 == <<"U","1">>

id_U2 == <<"U","2">>

id_C1 == <<"C","1">>

id_T1 == <<"T","1">>

s_blank == <<" ">>

BookmarkRequest(url, userId, channelId, teamId, hasManualTags, manualTags) ==
  [url |-> url, userId |-> userId, channelId |-> channelId, teamId |-> teamId,
   hasManualTags |-> hasManualTags, manualTags |-> manualTags]

ValidManualTags == { <<w_React>>, <<w_React, w_Clean>>, ManyTags(10), <<LongTag(50)>> }

ValidRequests ==
  {BookmarkRequest(u_url, userId, id_C1, teamId, FALSE, <<>>) :
     userId \in {id_U1, id_U2}, teamId \in {<<>>, id_T1}}
    \cup {BookmarkRequest(u_url, id_U1, id_C1, <<>>, TRUE, manualTags) :
            manualTags \in ValidManualTags}

\* requests with one field wrong
InvalidRequests ==
  {BookmarkRequest(url, id_U1, id_C1, <<>>, FALSE, <<>>) :
     url \in {<<>>, u_ftp, u_nohost, u_word}}
    \cup {BookmarkRequest(u_url, userId, id_C1, <<>>, FALSE, <<>>) :
            userId \in {<<>>, s_blank}}
    \cup {BookmarkRequest(u_url, id_U1, channelId, <<>>, FALSE, <<>>) :
            channelId \in {<<>>, s_blank}}
    \cup {BookmarkRequest(u_url, id_U1, id_C1, <<>>, TRUE, manualTags) :
            manualTags \in {ManyTags(11), <<w_react, <<>>>>, <<s_blank>>,
                            <<LongTag(51)>>}}

BookmarkRequests == ValidRequests \cup InvalidRequests

\* what extractMetadata resolves to
Metadatas == { [title |-> <<" ","T">>, description |-> <<>>],
               [title |-> <<>>, description |-> <<"d"," ">>] }

\* payloads of createBookmarkComplete: a request with title and description
CompletePayloads ==
  {[request |-> BookmarkRequest(u_url, userId, id_C1, id_T1, manualTags # <<>>, manualTags),
    metadata |-> metadata] :
     userId \in {id_U1, id_U2}, manualTags \in {<<>>, <<w_React>>},
     metadata \in Metadatas}

\* what getSeedTags resolves to
SeedTagLists == { <<>>, <<w_clean>> }

\* what generateTagsInternal returns inside generateTags
GeneratedTagLists == { <<>>, <<w_react>>, <<w_react, w_clean>> }

(***************************************************************************)
(* Actions: one per stretch of createBookmark / createBookmarkComplete     *)
(* between two awaited calls                                               *)
(***************************************************************************)
Called(op) == \E i \in 1..Len(svcCalls) : svcCalls[i].op = op

SvcReject(outcome) ==
  /\ svcPc' = "rejected"
  /\ svcOutcome' = outcome

\* createBookmark is called: validation, then findByUrl is issued
CreateBookmark(request) ==
  /\ svcPc = "idle"
  /\ requestsMade < MaxRequests
  /\ requestsMade' = requestsMade + 1
  /\ svcKind' = "create"
  /\ svcReq' = request
  /\ svcBefore' = bookmarks
  /\ IF validateBookmarkCreateRequest(request) # "ok"
     THEN /\ SvcReject("ValidationError")
          /\ UNCHANGED svcCalls
     ELSE /\ svcPc' = "awaitFindByUrl"
          /\ svcCalls' = <<Event("findByUrl", <<request.url, request.userId>>)>>
          /\ UNCHANGED svcOutcome
  /\ UNCHANGED <<bookmarks, svcMeta, svcTeamId, svcData, svcReturned, savesOk>>
  /\ UNCHANGED <<taggerVars, matcherVars, edgeVars>>

\* createBookmarkComplete is called: findByUrl is issued
CreateBookmarkComplete(payload) ==
  /\ svcPc = "idle"
  /\ requestsMade < MaxRequests
  /\ requestsMade' = requestsMade + 1
  /\ svcKind' = "complete"
  /\ svcReq' = payload.request
  /\ svcMeta' = payload.metadata
  /\ svcTeamId' = payload.request.teamId
  /\ svcBefore' = bookmarks
  /\ svcPc' = "awaitFindByUrl"
  /\ svcCalls' = <<Event("findByUrl", <<payload.request.url, payload.request.userId>>)>>
  /\ UNCHANGED <<bookmarks, svcData, svcOutcome, svcReturned, savesOk>>
  /\ UNCHANGED <<taggerVars, matcherVars, edgeVars>>

\* the columns findByUrl selects
FoundBookmark(row) ==
  [id |-> row.id, url |-> row.url, title |-> row.title,
   description |-> row.description, tags |-> row.tags, userId |-> row.userId,
   channelId |-> row.channelId]

\* findByUrl settles
FindByUrlReply(throws) ==
  LET existing == RowsByUrl(bookmarks, svcReq.url, svcReq.userId)
  IN
  /\ svcPc = "awaitFindByUrl"
  /\ IF throws
     THEN /\ SvcReject("DatabaseError")
          /\ UNCHANGED <<svcCalls, svcReturned>>
     ELSE IF existing # {}
     THEN /\ svcPc' = "resolved"
          /\ svcOutcome' = "returned"
          /\ svcReturned' = {FoundBookmark(row) : row \in existing}
          /\ UNCHANGED svcCalls
     ELSE IF svcKind = "create"
     THEN /\ svcPc' = "awaitMetadata"
          /\ svcCalls' = Append(svcCalls, Event("extractMetadata", <<svcReq.url>>))
          /\ UNCHANGED <<svcOutcome, svcReturned>>
     ELSE /\ svcPc' = "awaitSeedTags"
          /\ svcCalls' = Append(svcCalls, Event("getSeedTags", <<svcReq.userId, svcTeamId>>))
          /\ UNCHANGED <<svcOutcome, svcReturned>>
  /\ UNCHANGED <<bookmarks, svcKind, svcReq, svcMeta, svcTeamId, svcData, svcBefore,
                 savesOk, requestsMade>>
  /\ UNCHANGED <<taggerVars, matcherVars, edgeVars>>

\* extractMetadata settles; getSeedTags is issued
MetadataReply(throws, metadata) ==
  LET teamId == IF svcReq.teamId # <<>> THEN svcReq.teamId ELSE svcReq.userId
  IN
  /\ svcPc = "awaitMetadata"
  /\ IF throws
     THEN /\ SvcReject("MetadataError")
          /\ UNCHANGED <<svcMeta, svcTeamId, svcCalls>>
     ELSE /\ svcMeta' = metadata
          /\ svcTeamId' = teamId
          /\ svcPc' = "awaitSeedTags"
          /\ svcCalls' = Append(svcCalls, Event("getSeedTags", <<svcReq.userId, teamId>>))
          /\ UNCHANGED svcOutcome
  /\ UNCHANGED <<bookmarks, svcKind, svcReq, svcData, svcReturned, svcBefore,
                 savesOk, requestsMade>>
  /\ UNCHANGED <<taggerVars, matcherVars, edgeVars>>

\* getSeedTags settles; generateTags is issued
SeedTagsReply(throws, existingTags) ==
  /\ svcPc = "awaitSeedTags"
  /\ IF throws
     THEN /\ SvcReject("DatabaseError")
          /\ UNCHANGED svcCalls
     ELSE /\ svcPc' = "awaitGenerate"
          /\ svcCalls' = Append(svcCalls,
               Event("generateTags",
                     <<Trim(svcMeta.title \o <<" ">> \o svcMeta.description), existingTags,
                       IF svcReq.hasManualTags THEN svcReq.manualTags ELSE <<>>>>))
          /\ UNCHANGED svcOutcome
  /\ UNCHANGED <<bookmarks, svcKind, svcReq, svcMeta, svcTeamId, svcData, svcReturned,
                 svcBefore, savesOk, requestsMade>>
  /\ UNCHANGED <<taggerVars, matcherVars, edgeVars>>

\* changed: a rejection of generateTags is swallowed and the bookmark is saved
\* with the manual tags alone
Mutant_GenerateTagsReplySwallow(rejects, generated) ==
  LET generatedTags == IF rejects THEN <<>> ELSE generated
      data == bookmarkData(svcReq, svcMeta.title, svcMeta.description, svcTeamId,
                           generatedTags)
  IN
  /\ svcPc = "awaitGenerate"
  /\ svcData' = {data}
  /\ svcPc' = "awaitSave"
  /\ svcCalls' = Append(svcCalls, Event("save", data.tags))
  /\ svcOutcome' = IF rejects THEN "GenerationError" ELSE svcOutcome
  /\ UNCHANGED <<bookmarks, svcKind, svcReq, svcMeta, svcTeamId, svcReturned,
                 svcBefore, savesOk, requestsMade>>
  /\ UNCHANGED <<taggerVars, matcherVars, edgeVars>>

\* generateTags settles; the tags are combined and save is issued
GenerateTagsReply(rejects, generated) ==
  LET data == bookmarkData(svcReq, svcMeta.title, svcMeta.description, svcTeamId,
                           generated)
  IN
  /\ svcPc = "awaitGenerate"
  /\ IF rejects
     THEN /\ SvcReject("GenerationError")
          /\ UNCHANGED <<svcData, svcCalls>>
     ELSE /\ svcData' = {data}
          /\ svcPc' = "awaitSave"
          /\ svcCalls' = Append(svcCalls, Event("save", data.tags))
          /\ UNCHANGED svcOutcome
  /\ UNCHANGED <<bookmarks, svcKind, svcReq, svcMeta, svcTeamId, svcReturned,
                 svcBefore, savesOk, requestsMade>>
  /\ UNCHANGED <<taggerVars, matcherVars, edgeVars>>

\* what generateTags can resolve to for the request in progress: the manual
\* tags of the request combined with a generated list
GenerateTagsResults ==
  {generateTagsResult(IF svcReq.hasManualTags THEN svcReq.manualTags ELSE <<>>, generated) :
     generated \in GeneratedTagLists}

\* save settles
SaveReply(throws) ==
  /\ svcPc = "awaitSave"
  /\ IF throws
     THEN /\ SvcReject("DatabaseError")
          /\ UNCHANGED <<bookmarks, svcReturned, savesOk>>
     ELSE \E data \in svcData :
            LET key == <<svcReq.url, svcReq.userId>>
            IN  /\ bookmarks' = saveRow(bookmarks, data)
                /\ svcReturned' = {savedRow(bookmarks, data)}
                /\ savesOk' = MapSet(savesOk, key, ScoreIn(savesOk, key) + 1)
                /\ svcPc' = "resolved"
                /\ svcOutcome' = "returned"
  /\ UNCHANGED <<svcKind, svcReq, svcMeta, svcTeamId, svcData, svcCalls, svcBefore,
                 requestsMade>>
  /\ UNCHANGED <<taggerVars, matcherVars, edgeVars>>

\* the caller has taken the settled promise
SvcReturn ==
  /\ svcPc \in {"resolved", "rejected"}
  /\ svcPc' = "idle"
  /\ svcKind' = "create"
  /\ svcReq' = NoBookmarkRequest
  /\ svcMeta' = NoMetadata
  /\ svcTeamId' = <<>>
  /\ svcData' = {}
  /\ svcCalls' = <<>>
  /\ svcOutcome' = "none"
  /\ svcReturned' = {}
  /\ svcBefore' = {}
  /\ UNCHANGED <<bookmarks, savesOk, requestsMade>>
  /\ UNCHANGED <<taggerVars, matcherVars, edgeVars>>

ServiceInit ==
  /\ corpus = <<>>
  /\ TaggerIdle
  /\ ServiceIdle
  /\ MatcherIdle
  /\ EdgeIdle

ServiceNext ==
  \/ \E request \in BookmarkRequests : CreateBookmark(request)
  \/ \E payload \in CompletePayloads : CreateBookmarkComplete(payload)
  \/ \E throws \in BOOLEAN : FindByUrlReply(throws)
  \/ \E throws \in BOOLEAN, metadata \in Metadatas : MetadataReply(throws, metadata)
  \/ \E throws \in BOOLEAN, existingTags \in SeedTagLists :
       SeedTagsReply(throws, existingTags)
  \/ \E rejects \in BOOLEAN, generated \in GenerateTagsResults :
       GenerateTagsReply(rejects, generated)
  \/ \E throws \in BOOLEAN : SaveReply(throws)
  \/ SvcReturn

ServiceSpec == ServiceInit /\ [][ServiceNext]_vars

(***************************************************************************)
(* The scoring loops of findTagsByKeywordsWithScores, one iteration a step *)
(***************************************************************************)
\* what getExistingTags resolved to: the corpora above, an empty corpus, and a
\* corpus in which more than six tags get a score
MatcherCorpora ==
  Corpora \cup { <<>>, <<w_reach, w_hook>> \o ReactTags(4) \o <<w_react, w_hooks>> }

t_reactReach == <<"r","e","a","c","t"," ","r","e","a","c","h">>

\* the titles above and one in which a later keyword equals a tag that an
\* earlier keyword resembles
t_mixed == <<"T","h","e"," ","e","s","2","0","1","5"," ","w","e","b","3","p","y">>

\* a title with a capital, a stop word and digits inside words
MatcherTitles == Titles \cup {t_reactReach, t_mixed}

\* options.url
MatcherUrls == {u_url}

\* changed: the URL is tokenized with the title and the description
Mutant_matcherContentWithUrl(url, title, description) ==
  url \o <<" ">> \o title \o <<" ">> \o description

\* the text that is tokenized: `${title} ${description}`
matcherContent(url, title, description) == title \o <<" ">> \o description

\* changed: the boosts are tried in another order, keyword-in-tag first
Mutant_boostPairSubstringFirst(scores, keyword, tag) ==
  LET oldScore == ScoreIn(scores, tag)
      boost == IF Len(keyword) > 2 /\ Includes(tag, keyword) THEN 8
               ELSE scoreBoost(keyword, tag)
  IN  IF boost > 0 THEN MapSet(scores, tag, oldScore + Tenths(boost)) ELSE scores

\* one iteration of the first inner loop
boostPair(scores, keyword, tag) ==
  LET oldScore == ScoreIn(scores, tag)
      boost == scoreBoost(keyword, tag)
  IN  IF boost > 0 THEN MapSet(scores, tag, oldScore + Tenths(boost)) ELSE scores

\* changed: the fuzzy score is set whether or not the tag has a score
Mutant_fuzzyPairOverwrites(scores, keyword, tag) ==
  IF FuzzRatio(keyword, tag) >= 80 THEN MapSet(scores, tag, FuzzRatio(keyword, tag))
  ELSE scores

\* changed: the fuzzy score is the similarity, not a tenth of it
Mutant_fuzzyPairFullSimilarity(scores, keyword, tag) ==
  IF ~MapHas(scores, tag) /\ FuzzRatio(keyword, tag) >= 80
  THEN MapSet(scores, tag, Tenths(FuzzRatio(keyword, tag)))
  ELSE scores

\* one iteration of the second inner loop; similarity / 10 in tenths is the
\* similarity
fuzzyPair(scores, keyword, tag) ==
  IF ~MapHas(scores, tag)
  THEN IF FuzzRatio(keyword, tag) >= 80
       THEN MapSet(scores, tag, FuzzRatio(keyword, tag))
       ELSE scores
  ELSE scores

\* changed: the list is cut to six entries before it is sorted
Mutant_topMatchesSliceFirst(scores) == SortByScoreDesc(Slice0(scores, 6))

\* Array.from(tagScores.entries()).sort(...).slice(0, 6)
topMatches(scores) == Slice0(SortByScoreDesc(scores), 6)

\* the keywords are extracted and the tags have been fetched; the outer loop
\* is entered
FindTags(url, title, description, existingTags) ==
  LET keywords == extractKeywords(matcherContent(url, title, description))
  IN
  /\ mPc = "idle"
  /\ mOptions' = [url |-> url, title |-> title, description |-> description]
  /\ mKeywords' = keywords
  /\ mTags' = existingTags
  /\ mK' = 1
  /\ mT' = 1
  /\ tagScores' = <<>>
  /\ mPc' = IF keywords = <<>> THEN "sort" ELSE "boost"
  /\ UNCHANGED <<mVisits, mFuzzy, mResult>>
  /\ UNCHANGED <<taggerVars, serviceVars, edgeVars>>

\* one iteration of the first inner loop
BoostStep ==
  /\ mPc = "boost"
  /\ mT <= Len(mTags)
  /\ LET after == boostPair(tagScores, mKeywords[mK], mTags[mT])
     IN  /\ tagScores' = after
         /\ mVisits' = Append(mVisits,
                         [k |-> mK, tag |-> mTags[mT],
                          oldScore |-> ScoreIn(tagScores, mTags[mT]),
                          boost |-> ScoreIn(after, mTags[mT])
                                      - ScoreIn(tagScores, mTags[mT])])
  /\ mT' = mT + 1
  /\ UNCHANGED <<mPc, mOptions, mKeywords, mTags, mK, mFuzzy, mResult>>
  /\ UNCHANGED <<taggerVars, serviceVars, edgeVars>>

\* the first inner loop ends; the second begins
BoostEnd ==
  /\ mPc = "boost"
  /\ mT > Len(mTags)
  /\ mPc' = "fuzzy"
  /\ mT' = 1
  /\ UNCHANGED <<mOptions, mKeywords, mTags, mK, tagScores, mVisits, mFuzzy, mResult>>
  /\ UNCHANGED <<taggerVars, serviceVars, edgeVars>>

\* one iteration of the second inner loop
FuzzyStep ==
  /\ mPc = "fuzzy"
  /\ mT <= Len(mTags)
  /\ LET after == fuzzyPair(tagScores, mKeywords[mK], mTags[mT])
     IN  /\ tagScores' = after
         /\ mFuzzy' = IF after = tagScores THEN mFuzzy
                      ELSE Append(mFuzzy,
                             [k |-> mK, tag |-> mTags[mT],
                              had |-> MapHas(tagScores, mTags[mT]),
                              score |-> ScoreIn(after, mTags[mT])])
  /\ mT' = mT + 1
  /\ UNCHANGED <<mPc, mOptions, mKeywords, mTags, mK, mVisits, mResult>>
  /\ UNCHANGED <<taggerVars, serviceVars, edgeVars>>

\* the second inner loop ends; the outer loop goes to the next keyword or ends
FuzzyEnd ==
  /\ mPc = "fuzzy"
  /\ mT > Len(mTags)
  /\ mPc' = IF mK = Len(mKeywords) THEN "sort" ELSE "boost"
  /\ mK' = mK + 1
  /\ mT' = 1
  /\ UNCHANGED <<mOptions, mKeywords, mTags, tagScores, mVisits, mFuzzy, mResult>>
  /\ UNCHANGED <<taggerVars, serviceVars, edgeVars>>

\* after the outer loop: sort, cut to six, return
SortAndSlice ==
  /\ mPc = "sort"
  /\ mResult' = topMatches(tagScores)
  /\ mPc' = "done"
  /\ UNCHANGED <<mOptions, mKeywords, mTags, mK, mT, tagScores, mVisits, mFuzzy>>
  /\ UNCHANGED <<taggerVars, serviceVars, edgeVars>>

\* the caller has taken the list
MatcherReturn ==
  /\ mPc = "done"
  /\ mPc' = "idle"
  /\ mOptions' = NoOptions
  /\ mKeywords' = <<>>
  /\ mTags' = <<>>
  /\ mK' = 1
  /\ mT' = 1
  /\ tagScores' = <<>>
  /\ mVisits' = <<>>
  /\ mFuzzy' = <<>>
  /\ mResult' = <<>>
  /\ UNCHANGED <<taggerVars, serviceVars, edgeVars>>

MatcherInit ==
  /\ corpus = <<>>
  /\ TaggerIdle
  /\ ServiceIdle
  /\ MatcherIdle
  /\ EdgeIdle

MatcherNext ==
  \/ \E url \in MatcherUrls, title \in MatcherTitles, description \in Descriptions,
        existingTags \in MatcherCorpora :
       FindTags(url, title, description, existingTags)
  \/ BoostStep
  \/ BoostEnd
  \/ FuzzyStep
  \/ FuzzyEnd
  \/ SortAndSlice
  \/ MatcherReturn

MatcherSpec == MatcherInit /\ [][MatcherNext]_vars

(***************************************************************************)
(* Public Lambda: processBookmarkAsync                                     *)
(***************************************************************************)
MaxEvents == 2

c_url == u_url \o <<" ">> \o w_react \o <<" ">> \o <<" ">> \o w_css

c_ftp == u_ftp \o <<" ">> \o w_react

\* command.text of the process_bookmark event
CommandTexts == {<<>>, u_url, c_url, c_ftp, <<" ">> \o u_url}

Commands == {[text |-> text, user_id |-> userId] :
               text \in CommandTexts, userId \in {id_U1, id_U2}}

\* text.split(/\s+/): the maximal runs without whitespace, with an empty piece
\* before a leading run of whitespace and after a trailing one
SplitWhitespace(text) ==
  LET n == Len(text)
      starts == {i \in 1..n : ~IsWhitespace(text[i]) /\ (i = 1 \/ IsWhitespace(text[i - 1]))}
      ends == {i \in 1..n : ~IsWhitespace(text[i]) /\ (i = n \/ IsWhitespace(text[i + 1]))}
      words == [k \in 1..Cardinality(starts) |-> SubSeq(text, Nth(starts, k), Nth(ends, k))]
      lead == IF n = 0 \/ IsWhitespace(text[1]) THEN << <<>> >> ELSE <<>>
      trail == IF n > 0 /\ IsWhitespace(text[n]) /\ starts # {} THEN << <<>> >> ELSE <<>>
  IN  lead \o words \o trail

\* the request processBookmarkAsync builds: url is the first piece of the
\* text, manualTags the other pieces that are not empty
requestOf(command) ==
  LET parts == SplitWhitespace(command.text)
  IN  BookmarkRequest(parts[1], command.user_id, id_C1, id_T1, TRUE,
                      SelectSeq(Tail(parts), LAMBDA tag : Len(tag) > 0))

Post(kind, outcome) == [kind |-> kind, outcome |-> outcome]

\* how a fetch to response_url settles: a 2xx response, another response, or
\* a rejection
PostOutcomes == {"ok", "notOk", "rejects"}

\* the handler receives a process_bookmark event and calls createBookmark
ProcessBookmark(command) ==
  /\ hPc = "idle"
  /\ eventsMade < MaxEvents
  /\ eventsMade' = eventsMade + 1
  /\ hCommand' = command
  /\ hRequest' = requestOf(command)
  /\ hPc' = "awaitCreate"
  /\ UNCHANGED <<hSaved, hPosts>>
  /\ UNCHANGED <<taggerVars, serviceVars, matcherVars, lambdaVars, poolVars>>

\* createBookmark settles: on a bookmark the success message is posted, on a
\* rejection the catch block posts the error message
CreateBookmarkSettles(rejects) ==
  /\ hPc = "awaitCreate"
  /\ validateBookmarkCreateRequest(hRequest) # "ok" => rejects
  /\ IF rejects
     THEN /\ hPosts' = Append(hPosts, Post("error", "pending"))
          /\ hPc' = "awaitErrorPost"
          /\ UNCHANGED hSaved
     ELSE /\ hSaved' = TRUE
          /\ hPosts' = Append(hPosts, Post("success", "pending"))
          /\ hPc' = "awaitSuccessPost"
  /\ UNCHANGED <<hCommand, hRequest, eventsMade>>
  /\ UNCHANGED <<taggerVars, serviceVars, matcherVars, lambdaVars, poolVars>>

\* the fetch of the success message settles; a rejection and a response that
\* is not ok both reach the catch block, which posts the error message
SuccessPostSettles(outcome) ==
  LET settled == [hPosts EXCEPT ![Len(hPosts)].outcome = outcome]
  IN
  /\ hPc = "awaitSuccessPost"
  /\ IF outcome = "ok"
     THEN /\ hPosts' = settled
          /\ hPc' = "resolved"
     ELSE /\ hPosts' = Append(settled, Post("error", "pending"))
          /\ hPc' = "awaitErrorPost"
  /\ UNCHANGED <<hCommand, hRequest, hSaved, eventsMade>>
  /\ UNCHANGED <<taggerVars, serviceVars, matcherVars, lambdaVars, poolVars>>

\* the fetch of the error message settles; its response is not looked at and
\* a rejection leaves processBookmarkAsync rejected
ErrorPostSettles(outcome) ==
  /\ hPc = "awaitErrorPost"
  /\ hPosts' = [hPosts EXCEPT ![Len(hPosts)].outcome = outcome]
  /\ hPc' = IF outcome = "rejects" THEN "rejected" ELSE "resolved"
  /\ UNCHANGED <<hCommand, hRequest, hSaved, eventsMade>>
  /\ UNCHANGED <<taggerVars, serviceVars, matcherVars, lambdaVars, poolVars>>

\* the Lambda invocation is over
HandlerReturn ==
  /\ hPc \in {"resolved", "rejected"}
  /\ hPc' = "idle"
  /\ hCommand' = NoCommand
  /\ hRequest' = NoBookmarkRequest
  /\ hSaved' = FALSE
  /\ hPosts' = <<>>
  /\ UNCHANGED eventsMade
  /\ UNCHANGED <<taggerVars, serviceVars, matcherVars, lambdaVars, poolVars>>

HandlerInit ==
  /\ corpus = <<>>
  /\ TaggerIdle
  /\ ServiceIdle
  /\ MatcherIdle
  /\ EdgeIdle

HandlerNext ==
  \/ \E command \in Commands : ProcessBookmark(command)
  \/ \E rejects \in BOOLEAN : CreateBookmarkSettles(rejects)
  \/ \E outcome \in PostOutcomes : SuccessPostSettles(outcome)
  \/ \E outcome \in PostOutcomes : ErrorPostSettles(outcome)
  \/ HandlerReturn

HandlerSpec == HandlerInit /\ [][HandlerNext]_vars

(***************************************************************************)
(* Private Lambda handler and LambdaBookmarkRepository.invokeLambda        *)
(***************************************************************************)
MaxInvokes == 2

PrivateLambdaOperation ==
  {"saveBookmark", "findByUrl", "getSeedTags", "searchBookmarks", "deleteBookmark",
   "initializeSchema", "getRecentBookmarks", "getExistingTags", "getPopularTags",
   "createBookmarkComplete"}

\* event.operation: some of the operations and one the switch does not know
LambdaOperations ==
  {"saveBookmark", "findByUrl", "createBookmarkComplete", "initializeSchema", "bogus"}

Settled(kind, value, isError) == [kind |-> kind, value |-> value, isError |-> isError]

\* how the repository or service call of the handler settles: with a value,
\* or rejected with an Error or with a value that is no Error
RepositoryOutcomes ==
  {Settled("resolves", value, FALSE) : value \in {"rows", "null"}}
    \cup {Settled("rejects", "Failed to save bookmark", TRUE),
          Settled("rejects", "timeout", FALSE)}

\* changed: the handler has no catch block
Mutant_privateHandlerNoCatch(operation, settled) ==
  IF operation \notin PrivateLambdaOperation \/ settled.kind = "rejects"
  THEN [threw |-> TRUE, response |-> NoLambdaResponse]
  ELSE [threw |-> FALSE, response |-> LambdaResponse(TRUE, settled.value, "none")]

\* the private handler, given how the call made for the operation settles
privateHandler(operation, settled) ==
  IF operation \notin PrivateLambdaOperation
  THEN [threw |-> FALSE,
        response |-> LambdaResponse(FALSE, "none", "Unknown operation")]
  ELSE IF settled.kind = "rejects"
  THEN [threw |-> FALSE,
        response |-> LambdaResponse(FALSE, "none",
                       IF settled.isError THEN settled.value ELSE "Unknown error")]
  ELSE [threw |-> FALSE, response |-> LambdaResponse(TRUE, settled.value, "none")]

\* what client.send gives invokeLambda:
\*   "rejects"        the invocation failed
\*   "noPayload"      a response without Payload
\*   "functionError"  the Payload is the error object of a failed function,
\*                    which has no success field
\*   "payload"        the Payload is the handler's LambdaResponse
DeliveryKinds == {"noPayload", "functionError", "payload"}

LambdaError(message) == [kind |-> "LambdaError", data |-> "none", message |-> message]

invokeLambda(kind, response) ==
  IF kind = "rejects" THEN LambdaError("Lambda invocation failed")
  ELSE IF kind = "noPayload" THEN LambdaError("Empty response from private Lambda")
  ELSE IF kind = "functionError" THEN LambdaError("Private Lambda error")
  ELSE IF ~response.success THEN LambdaError("Private Lambda error")
  ELSE [kind |-> "returned", data |-> response.data, message |-> "none"]

\* invokeLambda is called and sends the InvokeCommand
InvokeLambda(operation) ==
  /\ lPc = "idle"
  /\ invokesMade < MaxInvokes
  /\ invokesMade' = invokesMade + 1
  /\ lRequest' = operation
  /\ lPc' = "sent"
  /\ UNCHANGED <<lHandler, lOutcome>>
  /\ UNCHANGED <<taggerVars, serviceVars, matcherVars, handlerVars, poolVars>>

\* client.send rejects, before or after the function ran
SendRejects ==
  /\ lPc \in {"sent", "awaitRepository", "responded"}
  /\ lOutcome' = invokeLambda("rejects", NoLambdaResponse)
  /\ lPc' = "settled"
  /\ UNCHANGED <<lRequest, lHandler, invokesMade>>
  /\ UNCHANGED <<taggerVars, serviceVars, matcherVars, handlerVars, poolVars>>

\* the private handler runs up to the call its switch makes
HandlerInvoked ==
  /\ lPc = "sent"
  /\ IF lRequest \in PrivateLambdaOperation
     THEN /\ lPc' = "awaitRepository"
          /\ UNCHANGED lHandler
     ELSE /\ lHandler' = privateHandler(lRequest, Settled("none", "none", FALSE))
          /\ lPc' = "responded"
  /\ UNCHANGED <<lRequest, lOutcome, invokesMade>>
  /\ UNCHANGED <<taggerVars, serviceVars, matcherVars, handlerVars, poolVars>>

\* the call settles and the handler ends
RepositorySettles(settled) ==
  /\ lPc = "awaitRepository"
  /\ lHandler' = privateHandler(lRequest, settled)
  /\ lPc' = "responded"
  /\ UNCHANGED <<lRequest, lOutcome, invokesMade>>
  /\ UNCHANGED <<taggerVars, serviceVars, matcherVars, handlerVars, poolVars>>

\* client.send resolves and invokeLambda settles; a handler that threw can
\* only be seen as a function error
Deliver(kind) ==
  /\ lPc = "responded"
  /\ lHandler.threw => kind = "functionError"
  /\ lOutcome' = invokeLambda(kind, lHandler.response)
  /\ lPc' = "settled"
  /\ UNCHANGED <<lRequest, lHandler, invokesMade>>
  /\ UNCHANGED <<taggerVars, serviceVars, matcherVars, handlerVars, poolVars>>

\* the caller has taken the settled promise
LambdaReturn ==
  /\ lPc = "settled"
  /\ lPc' = "idle"
  /\ lRequest' = "none"
  /\ lHandler' = NoHandlerRun
  /\ lOutcome' = NoOutcome
  /\ UNCHANGED invokesMade
  /\ UNCHANGED <<taggerVars, serviceVars, matcherVars, handlerVars, poolVars>>

LambdaInit ==
  /\ corpus = <<>>
  /\ TaggerIdle
  /\ ServiceIdle
  /\ MatcherIdle
  /\ EdgeIdle

LambdaNext ==
  \/ \E operation \in LambdaOperations : InvokeLambda(operation)
  \/ SendRejects
  \/ HandlerInvoked
  \/ \E settled \in RepositoryOutcomes : RepositorySettles(settled)
  \/ \E kind \in DeliveryKinds : Deliver(kind)
  \/ LambdaReturn

LambdaSpec == LambdaInit /\ [][LambdaNext]_vars

(***************************************************************************)
(* PostgresBookmarkRepository: getPool, an operation, close                *)
(***************************************************************************)
MaxOpsStarted == 3

\* an operation (save, findByUrl, ...) is called: it calls getPool, which
\* returns this.pool when it is set and else awaits getDatabaseCredentials;
\* with the pool in hand the operation calls pool.connect()
BeginOperation(p) ==
  /\ opPc[p] = "idle"
  /\ opsStarted < MaxOpsStarted
  /\ opsStarted' = opsStarted + 1
  /\ IF pool # 0
     THEN /\ opPool' = [opPool EXCEPT ![p] = pool]
          /\ opPc' = [opPc EXCEPT ![p] = "awaitConnect"]
     ELSE /\ opPc' = [opPc EXCEPT ![p] = "awaitCredentials"]
          /\ UNCHANGED opPool
  /\ UNCHANGED <<pool, poolsBuilt, closePc, opClient, released>>
  /\ UNCHANGED <<taggerVars, serviceVars, matcherVars, handlerVars, lambdaVars>>

\* getDatabaseCredentials settles: getPool constructs a Pool, stores it in
\* this.pool and returns it; this.pool is not read again after the await
CredentialsSettle(p, rejects) ==
  /\ opPc[p] = "awaitCredentials"
  /\ IF rejects
     THEN /\ opPc' = [opPc EXCEPT ![p] = "rejected"]
          /\ UNCHANGED <<pool, poolsBuilt, opPool>>
     ELSE /\ poolsBuilt' = poolsBuilt + 1
          /\ pool' = poolsBuilt + 1
          /\ opPool' = [opPool EXCEPT ![p] = poolsBuilt + 1]
          /\ opPc' = [opPc EXCEPT ![p] = "awaitConnect"]
  /\ UNCHANGED <<closePc, opClient, released, opsStarted>>
  /\ UNCHANGED <<taggerVars, serviceVars, matcherVars, handlerVars, lambdaVars>>

\* pool.connect() settles: with a client the query is sent
ConnectSettles(p, rejects) ==
  /\ opPc[p] = "awaitConnect"
  /\ IF rejects
     THEN /\ opPc' = [opPc EXCEPT ![p] = "rejected"]
          /\ UNCHANGED <<opClient, released>>
     ELSE /\ opClient' = [opClient EXCEPT ![p] = Len(released) + 1]
          /\ released' = Append(released, 0)
          /\ opPc' = [opPc EXCEPT ![p] = "awaitQuery"]
  /\ UNCHANGED <<pool, poolsBuilt, closePc, opPool, opsStarted>>
  /\ UNCHANGED <<taggerVars, serviceVars, matcherVars, handlerVars, lambdaVars>>

\* client.query settles; the finally block releases the client
QuerySettles(p, rejects) ==
  /\ opPc[p] = "awaitQuery"
  /\ released' = [released EXCEPT ![opClient[p]] = @ + 1]
  /\ opPc' = [opPc EXCEPT ![p] = IF rejects THEN "rejected" ELSE "resolved"]
  /\ UNCHANGED <<pool, poolsBuilt, closePc, opPool, opClient, opsStarted>>
  /\ UNCHANGED <<taggerVars, serviceVars, matcherVars, handlerVars, lambdaVars>>

\* the caller has taken the settled promise
OperationReturn(p) ==
  /\ opPc[p] \in {"resolved", "rejected"}
  /\ opPc' = [opPc EXCEPT ![p] = "idle"]
  /\ opPool' = [opPool EXCEPT ![p] = 0]
  /\ opClient' = [opClient EXCEPT ![p] = 0]
  /\ UNCHANGED <<pool, poolsBuilt, closePc, released, opsStarted>>
  /\ UNCHANGED <<taggerVars, serviceVars, matcherVars, handlerVars, lambdaVars>>

\* close() finds a pool and awaits pool.end()
CloseBegin ==
  /\ closePc = "idle"
  /\ pool # 0
  /\ closePc' = "awaitEnd"
  /\ UNCHANGED <<pool, poolsBuilt, opPc, opPool, opClient, released, opsStarted>>
  /\ UNCHANGED <<taggerVars, serviceVars, matcherVars, handlerVars, lambdaVars>>

\* pool.end() settles and close() sets this.pool to null
CloseEnd ==
  /\ closePc = "awaitEnd"
  /\ pool' = 0
  /\ poolsBuilt' = 0
  /\ closePc' = "idle"
  /\ UNCHANGED <<opPc, opPool, opClient, released, opsStarted>>
  /\ UNCHANGED <<taggerVars, serviceVars, matcherVars, handlerVars, lambdaVars>>

PoolInit ==
  /\ corpus = <<>>
  /\ TaggerIdle
  /\ ServiceIdle
  /\ MatcherIdle
  /\ EdgeIdle

PoolNext ==
  \/ \E p \in Ops : BeginOperation(p)
  \/ \E p \in Ops, rejects \in BOOLEAN : CredentialsSettle(p, rejects)
  \/ \E p \in Ops, rejects \in BOOLEAN : ConnectSettles(p, rejects)
  \/ \E p \in Ops, rejects \in BOOLEAN : QuerySettles(p, rejects)
  \/ \E p \in Ops : OperationReturn(p)
  \/ CloseBegin
  \/ CloseEnd

PoolSpec == PoolInit /\ [][PoolNext]_vars

(***************************************************************************)
(* Properties                                                              *)
(***************************************************************************)
\* a tag as deduplication compares it: lowercased and trimmed
Normalized(tag) == Trim(ToLowerCase(tag))

\* arr without the entries whose normalized form occurred earlier
DedupFirst(arr) ==
  LET keep == {i \in 1..Len(arr) :
                 \A j \in 1..(i - 1) : Normalized(arr[j]) # Normalized(arr[i])}
  IN  [k \in 1..Cardinality(keep) |-> arr[Nth(keep, k)]]

\* the tags getExistingTags handed to the matcher in this invocation
FetchedTags == IF storeReply = "tags" THEN corpus ELSE <<>>

\* the matcher's score Map for the invocation's title and description
FullScores ==
  ScoreKeywords(<<>>, extractKeywords(req.title \o <<" ">> \o req.description),
                FetchedTags)

\* C1: generateTags with a non-empty manualTags list resolves to a list that
\* holds every manual tag and has at most 8 entries.
C1_ManualTagsAllIncluded ==
  (pc = "done" /\ req.manualTags # <<>>) =>
    /\ \A i \in 1..Len(req.manualTags) : ArrayIncludes(result, req.manualTags[i])
    /\ Len(result) <= 8

\* C2: with manual tags the result is manualTags followed by the generated
\* tags, deduplicated on the lowercased, trimmed tag with the first occurrence
\* kept (and capped at 8): no two entries are equal after normalization.
C2_ManualThenGeneratedDeduplicated ==
  (pc = "done" /\ req.manualTags # <<>>) =>
    /\ result = Slice0(DedupFirst(req.manualTags \o hybridTags), 8)
    /\ \A i, j \in 1..Len(result) :
         i # j => Normalized(result[i]) # Normalized(result[j])

\* C3: reconciliation never returns more than 6 tags, so generateTags without
\* manual tags never resolves to more than 6 tags.
C3_ReconcileAtMostSix ==
  pc = "done" =>
    /\ Len(hybridTags) <= MAX_TOTAL_TAGS
    /\ (req.manualTags = <<>> => Len(result) <= MAX_TOTAL_TAGS)

\* C4: the filter never returns an empty list for a non-empty draft, whatever
\* the service replied and whatever the protected set is.
C4_FilterKeepsNonEmpty ==
  (Logged("reconcile") /\ initialTags # <<>>) => filteredTags # <<>>

C4_Witness ==
  /\ pc = "done"
  /\ initialTags # <<>>
  /\ filterReply = Reply("array", <<Num>>)
  /\ protectedTagsOf(initialTags, existingMatches) = <<>>
  /\ filteredTags = initialTags

C6_DraftFailureRejects ==
  draftReply.kind \in {"throws", "emptyBody", "noText"} =>
    /\ pc = "rejected"
    /\ result = <<>> /\ hybridTags = <<>> /\ filteredTags = <<>>
    /\ ~Logged("filter")
    /\ ~Logged("reconcile")

C6_Witness ==
  /\ draftReply.kind = "emptyBody"
  /\ pc = "rejected"
  /\ existingMatchesWithScores # <<>>

\* C7: when the draft reply has no bracketed array the draft is empty, no
\* filter call is made, generateTags resolves, and without manual tags the
\* result is exactly the corpus tags that score at least 15, at most 6 of
\* them and the highest first.
C7_NoArrayLeavesCorpusMatches ==
  draftReply.kind = "noArray" =>
    /\ pc = "done"
    /\ initialTags = <<>>
    /\ ~Logged("filter")
    /\ req.manualTags = <<>> =>
         /\ Len(result) <= 6
         /\ \A i \in 1..Len(result) :
              /\ ArrayIncludes(FetchedTags, result[i])
              /\ ScoreIn(FullScores, result[i]) >= Tenths(15)
              /\ \A j \in 1..Len(result) : i # j => result[i] # result[j]
              /\ \A j \in (i + 1)..Len(result) :
                   ScoreIn(FullScores, result[i]) >= ScoreIn(FullScores, result[j])
         /\ \A k \in 1..Len(FetchedTags) :
              ScoreIn(FullScores, FetchedTags[k]) >= Tenths(15) =>
                \/ ArrayIncludes(result, FetchedTags[k])
                \/ /\ Len(result) = 6
                   /\ \A i \in 1..Len(result) :
                        ScoreIn(FullScores, result[i])
                          >= ScoreIn(FullScores, FetchedTags[k])

C7_Witness ==
  /\ draftReply.kind = "noArray"
  /\ pc = "done"
  /\ req.manualTags = <<>>
  /\ result = <<w_react>>
  /\ Len(existingMatchesWithScores) > 1

\* C8: a draft reply whose bracketed region is not valid JSON gives an empty
\* draft without throwing, as a reply without a bracketed array does, so
\* generateTags still resolves.
C8_BadJsonDraftIsEmpty ==
  draftReply.kind = "badJson" => (pc = "done" /\ initialTags = <<>>)

\* C9: a failure of the Tag Corpus Store is never propagated: when
\* getExistingTags throws the matcher returns an empty list, and without a
\* team id it returns an empty list without calling the store; either way the
\* pipeline runs with no protected tags and reconciliation adds nothing.
C9_CorpusFailureSwallowed ==
  /\ storeReply = "throws" =>
       /\ pc \in {"awaitDraft", "awaitFilter", "done", "rejected"}
       /\ pc = "rejected" => draftReply # NoReply
  /\ (req.teamId = NoTeam /\ pc # "idle") => ~Logged("getExistingTags")
  /\ (storeReply = "throws" \/ (req.teamId = NoTeam /\ pc # "idle")) =>
       /\ existingMatchesWithScores = <<>>
       /\ \A i \in 1..Len(log) :
            /\ log[i].op = "draft" => log[i].arg = <<>>
            /\ log[i].op = "filter" => log[i].arg = initialTags
       /\ pc = "done" => hybridTags = filteredTags

C9_Witness ==
  /\ storeReply = "throws"
  /\ pc = "done"
  /\ corpus[1] = w_react
  /\ req.title = t_ReactHooks
  /\ hybridTags = <<w_clean>>

\* C10: every protected draft tag is in the filter's output on every path, no
\* protected tag is among the candidates sent to the service, and when every
\* draft tag is protected no call is made and the draft is returned unchanged.
C10_ProtectedTagsRetained ==
  /\ Logged("reconcile") =>
       \A i \in 1..Len(initialTags) :
         ArrayIncludes(existingMatches, initialTags[i])
           => ArrayIncludes(filteredTags, initialTags[i])
  /\ \A i \in 1..Len(log) :
       log[i].op = "filter" =>
         \A k \in 1..Len(log[i].arg) : ~ArrayIncludes(existingMatches, log[i].arg[k])
  /\ (Logged("reconcile") /\ candidateTagsOf(initialTags, existingMatches) = <<>>) =>
       (~Logged("filter") /\ filteredTags = initialTags)

C10_Witness ==
  /\ pc = "done"
  /\ Logged("filter")
  /\ filterReply = Reply("array", <<Num>>)
  /\ initialTags = <<w_react, w_clean>>
  /\ ArrayIncludes(existingMatches, w_react)
  /\ filteredTags = <<w_react>>

\* C11: when the filter service replies with a valid but empty array, the
\* filter returns the original draft, protected tags and candidates alike,
\* whether or not some draft tags are protected.
C11_EmptyArrayKeepsDraft ==
  (Logged("reconcile") /\ filterReply = Reply("array", <<>>)) =>
    filteredTags = initialTags

\* C12: when generateTags rejects inside createBookmark or
\* createBookmarkComplete the operation rejects, save is not called for that
\* request and the table is as it was when the request started.
C12_GenerationFailureSavesNothing ==
  svcOutcome = "GenerationError" =>
    /\ svcPc = "rejected"
    /\ Called("generateTags")
    /\ ~Called("save")
    /\ svcData = {}
    /\ svcReturned = {}
    /\ bookmarks = svcBefore

C12_Witness ==
  /\ svcOutcome = "GenerationError"
  /\ svcPc = "rejected"
  /\ svcKind = "complete"
  /\ svcReq.hasManualTags
  /\ bookmarks # {}

\* C13: when findByUrl finds a bookmark, createBookmark returns it and calls
\* neither the metadata extractor, the tag generator nor save; so over any
\* sequence of calls that do not overlap, save is called at most once for one
\* user and one URL (counted here: the save calls that resolved).
C13_SaveAtMostOncePerUserAndUrl ==
  /\ (svcPc = "resolved" /\ ~Called("save")) =>
       /\ svcReturned = {FoundBookmark(row) :
                           row \in RowsByUrl(bookmarks, svcReq.url, svcReq.userId)}
       /\ svcReturned # {}
       /\ Len(svcCalls) = 1
       /\ bookmarks = svcBefore
  /\ \A i \in 1..Len(savesOk) : savesOk[i][2] <= 1

\* C14: the tags handed to save, after sanitizeBookmark's trim and lowercase,
\* contain no two equal entries.
C14_SavedTagsDistinct ==
  \A data \in svcData :
    \A i, j \in 1..Len(data.tags) : i # j => data.tags[i] # data.tags[j]

\* the invalid requests C15 lists
C15_Invalid(request) ==
  \/ request.url = <<>>
  \/ ~(StartsWith(request.url, s_http) \/ StartsWith(request.url, s_https))
  \/ \A i \in 1..Len(request.userId) : request.userId[i] = " "
  \/ \A i \in 1..Len(request.channelId) : request.channelId[i] = " "
  \/ (request.hasManualTags /\ Len(request.manualTags) > 10)
  \/ (request.hasManualTags
        /\ \E i \in 1..Len(request.manualTags) :
             request.manualTags[i] = <<>> \/ Len(request.manualTags[i]) > 50)

\* C15: createBookmark rejects a request with an empty or non-http(s) URL, a
\* blank userId or channelId, more than 10 manual tags, or an empty or
\* over-50-character manual tag with a ValidationError, and findByUrl,
\* extractMetadata, getSeedTags, generateTags and save are all uncalled.
C15_InvalidRequestTouchesNothing ==
  (svcKind = "create" /\ svcPc # "idle" /\ C15_Invalid(svcReq)) =>
    /\ svcPc = "rejected"
    /\ svcOutcome = "ValidationError"
    /\ svcCalls = <<>>
    /\ svcData = {}
    /\ bookmarks = svcBefore

C15_Witness ==
  /\ svcPc = "rejected"
  /\ svcOutcome = "ValidationError"
  /\ svcReq.manualTags = <<LongTag(51)>>
  /\ bookmarks # {}

\* the iterations of the first inner loop that added to the score of tag
BoostsOf(tag) == {i \in 1..Len(mVisits) : mVisits[i].tag = tag /\ mVisits[i].boost > 0}

\* the fuzzy scores given to tag
FuzzyOf(tag) == {i \in 1..Len(mFuzzy) : mFuzzy[i].tag = tag}

\* C16: within one scoring request a tag is given a fuzzy score at most once,
\* and only when no perfect, grammatical, keyword-in-tag or tag-in-keyword
\* match of a keyword processed so far (the current one included) has scored
\* it; a fuzzy score never overwrites and is never added to an existing score.
C16_FuzzyOnceAndOnlyUnscored ==
  \A i \in 1..Len(mFuzzy) :
    LET e == mFuzzy[i]
    IN  /\ \A j \in 1..Len(mFuzzy) : j # i => mFuzzy[j].tag # e.tag
        /\ ~e.had
        /\ \A v \in BoostsOf(e.tag) : mVisits[v].k > e.k
        /\ e.score = FuzzRatio(mKeywords[e.k], e.tag)
        /\ e.score >= 80 /\ e.score <= 100

C16_Witness ==
  /\ mPc = "done"
  /\ Cardinality({k \in 1..Len(mKeywords) : mKeywords[k] = w_react}) = 2
  /\ ArrayIncludes(mTags, w_react)
  /\ Len(mFuzzy) = 1
  /\ mFuzzy[1].tag = w_reach
  /\ mFuzzy[1].k = 1

\* a scored tag whose score comes from a fuzzy match alone
FuzzyOnly(tag) == MapHas(tagScores, tag) /\ BoostsOf(tag) = {}

\* C17: a corpus tag equal to an extracted keyword has a score of at least 15
\* and stands, in the returned list, before every tag whose score is fuzzy
\* only (at most 10); no fuzzy-only tag is returned while a tag equal to a
\* keyword is left out.
C17_PerfectAboveFuzzyOnly ==
  mPc = "done" =>
    /\ \A t \in 1..Len(mTags) :
         ArrayIncludes(mKeywords, mTags[t]) =>
           /\ ScoreIn(tagScores, mTags[t]) >= Tenths(15)
           /\ (\E j \in 1..Len(mResult) : FuzzyOnly(mResult[j][1]))
                => ArrayIncludes(TagsOf(mResult), mTags[t])
    /\ \A t \in 1..Len(mTags) :
         FuzzyOnly(mTags[t]) => ScoreIn(tagScores, mTags[t]) <= Tenths(10)
    /\ \A i, j \in 1..Len(mResult) :
         (ArrayIncludes(mKeywords, mResult[i][1]) /\ FuzzyOnly(mResult[j][1])) => i < j

C17_Witness ==
  /\ mPc = "done"
  /\ \E i, j \in 1..Len(mResult) :
       /\ i < j
       /\ mResult[i] = <<w_react, Tenths(15)>>
       /\ mResult[j][1] = w_reach
       /\ FuzzyOnly(w_reach)

\* position of tag in existingTags
TagIndex(tag) == CHOOSE i \in 1..Len(mTags) : mTags[i] = tag

\* the moments at which tag received a score, as numbers that grow with time:
\* the keyword, then the inner loop, then the tag
ScoredAt(tag) ==
  {100 * mVisits[i].k + TagIndex(tag) : i \in BoostsOf(tag)}
    \cup {100 * mFuzzy[i].k + 50 + TagIndex(tag) : i \in FuzzyOf(tag)}

FirstScoredAt(tag) == CHOOSE x \in ScoredAt(tag) : \A y \in ScoredAt(tag) : x <= y

\* C19: the matcher returns at most 6 (tag, score) pairs, every tag at most
\* once, by score descending, equal scores in the order in which the tags
\* first received a score, and no tag left out has a score above the lowest
\* returned score.
C19_TopSixSortedStable ==
  mPc = "done" =>
    /\ Len(mResult) <= 6
    /\ \A i \in 1..Len(mResult) :
         /\ ArrayIncludes(mTags, mResult[i][1])
         /\ ScoredAt(mResult[i][1]) # {}
         /\ mResult[i][2] = ScoreIn(tagScores, mResult[i][1])
    /\ \A i, j \in 1..Len(mResult) :
         i < j =>
           /\ mResult[i][1] # mResult[j][1]
           /\ mResult[i][2] >= mResult[j][2]
           /\ mResult[i][2] = mResult[j][2] =>
                FirstScoredAt(mResult[i][1]) < FirstScoredAt(mResult[j][1])
    /\ \A t \in 1..Len(mTags) :
         (ScoredAt(mTags[t]) # {} /\ ~ArrayIncludes(TagsOf(mResult), mTags[t])) =>
           /\ Len(mResult) = 6
           /\ \A i \in 1..Len(mResult) : ScoreIn(tagScores, mTags[t]) <= mResult[i][2]

C19_Witness ==
  /\ mPc = "done"
  /\ Len(tagScores) = 8
  /\ Len(mResult) = 6
  /\ mResult[1] = <<w_react, Tenths(15)>>
  /\ mResult[2] = <<w_hooks, Tenths(15)>>
  /\ mResult[6][2] = Tenths(8)
  /\ ScoreIn(tagScores, w_reach) = Tenths(8)
  /\ ~ArrayIncludes(TagsOf(mResult), w_reach)

\* the increment C20 gives for keyword k and tag t
C20_Increment(k, t) ==
  IF k = t THEN 15
  ELSE IF isGrammaticalVariation(k, t) THEN 12
  ELSE IF Includes(t, k) THEN 8
  ELSE IF Includes(k, t) /\ Len(t) > 2 THEN 5
  ELSE 0

\* the sum over all keyword occurrences of the increments for tag t
C20_LexicalSum(t) ==
  LET occurrences(points) ==
        Cardinality({k \in 1..Len(mKeywords) : C20_Increment(mKeywords[k], t) = points})
  IN  15 * occurrences(15) + 12 * occurrences(12) + 8 * occurrences(8)
        + 5 * occurrences(5)

\* C20: for every keyword occurrence and every corpus tag exactly one
\* increment is added to the tag's score, chosen by the first rule that
\* applies (equal 15, grammatical variation 12, tag contains keyword 8,
\* keyword contains a tag longer than 2 characters 5, otherwise 0); the
\* lexical part of a tag's final score is the sum of these increments over all
\* keyword occurrences.
C20_OneIncrementPerKeywordAndTag ==
  /\ \A i \in 1..Len(mVisits) :
       /\ mVisits[i].boost
            = Tenths(C20_Increment(mKeywords[mVisits[i].k], mVisits[i].tag))
       /\ \A j \in 1..Len(mVisits) :
            (j # i /\ mVisits[j].k = mVisits[i].k) => mVisits[j].tag # mVisits[i].tag
  /\ mPc = "done" =>
       /\ Len(mVisits) = Len(mKeywords) * Len(mTags)
       /\ \A t \in 1..Len(mTags) :
            ScoreIn(tagScores, mTags[t])
              = Tenths(C20_LexicalSum(mTags[t]))
                  + (IF FuzzyOf(mTags[t]) = {} THEN 0
                     ELSE mFuzzy[CHOOSE i \in FuzzyOf(mTags[t]) : TRUE].score)

C20_Witness ==
  /\ mPc = "done"
  /\ mKeywords = <<w_react, w_hooks, w_react, <<"a","p","i">>>>
  /\ ScoreIn(tagScores, w_react) = Tenths(30)
  /\ ScoreIn(tagScores, w_hook) = Tenths(12)
  /\ ScoreIn(tagScores, w_act) = Tenths(10)

\* the scored tags with a score of at least 15 that are not in currentTags,
\* by score descending
C18_Missing(currentTags, scored) ==
  TagsOf(SortByScoreDesc(SelectSeq(scored,
    LAMBDA e : e[2] >= Tenths(15) /\ ~ArrayIncludes(currentTags, e[1]))))

\* C18: reconciliation returns currentTags followed by exactly
\* min(m, max(0, 6 - |currentTags|)) of the m scored tags with score >= 15 that
\* are not in currentTags, highest score first; with 6 or more current tags
\* nothing is appended.
C18_ReconcileAppendsWhatFits ==
  pc = "done" =>
    LET missing == C18_Missing(filteredTags, existingMatchesWithScores)
        room == IF Len(filteredTags) >= 6 THEN 0 ELSE 6 - Len(filteredTags)
        appended == IF Len(missing) <= room THEN Len(missing) ELSE room
    IN  hybridTags = filteredTags \o SubSeq(missing, 1, appended)

\* the characters C21 names as the ones that split
C21_IsSeparator(c) == IsWhitespace(c) \/ c \in {"/", "-", "_", ".", ",", "!", "?", "(", ")"}

\* the maximal runs of characters of text that C21 says do not split
C21_Tokens(text) ==
  LET n == Len(text)
      sep(i) == C21_IsSeparator(text[i])
      starts == {i \in 1..n : ~sep(i) /\ (i = 1 \/ sep(i - 1))}
      ends == {i \in 1..n : ~sep(i) /\ (i = n \/ sep(i + 1))}
  IN  [k \in 1..Cardinality(starts) |-> SubSeq(text, Nth(starts, k), Nth(ends, k))]

\* C21: extractKeywords splits its lowercased input exactly on whitespace and
\* slash, dash, underscore, period, comma, !, ?, ( and ): words joined by a
\* dash become separate tokens and a digit does not split a token.
C21_SplitsOnNamedPunctuationOnly ==
  mPc # "idle" =>
    mKeywords =
      SelectSeq(C21_Tokens(ToLowerCase(mOptions.title \o <<" ">> \o mOptions.description)),
                LAMBDA word : Len(word) > 2 /\ word \notin stopWords /\ ~IsNumber(word))

\* C22: every keyword is lowercase, at least 3 characters long, no stop word
\* and not purely numeric; empty input gives no keyword; only title and
\* description are tokenized, never the URL.
C22_KeywordsWellFormed ==
  mPc # "idle" =>
    /\ \A k \in 1..Len(mKeywords) :
         /\ Len(mKeywords[k]) >= 3
         /\ mKeywords[k] = ToLowerCase(mKeywords[k])
         /\ mKeywords[k] \notin stopWords
         /\ ~IsNumber(mKeywords[k])
         /\ \/ Includes(ToLowerCase(mOptions.title), mKeywords[k])
            \/ Includes(ToLowerCase(mOptions.description), mKeywords[k])
    /\ (mOptions.title = <<>> /\ mOptions.description = <<>>) => mKeywords = <<>>

C22_Witness ==
  /\ mPc = "done"
  /\ mOptions.url = u_url
  /\ mOptions.title = t_mixed
  /\ mOptions.description = d_reactApi
  /\ mKeywords = <<<<"w","e","b">>, w_react, <<"a","p","i">>>>

\* the draft call of the invocation in progress returned normally
C23_DraftReturned == draftReply # NoReply /\ draftReply.kind \in {"array", "noArray"}

\* the positions of the decoded array whose element is a string that is, once
\* lowercased and trimmed, 1 to 50 characters long
C23_KeptPositions ==
  {i \in 1..Len(draftReply.elems) :
     /\ draftReply.elems[i].type = "string"
     /\ Len(Trim(ToLowerCase(draftReply.elems[i].value))) \in 1..50}

\* C23: whenever the draft stage returns normally its result has at most 10
\* entries, each a non-empty lowercase trimmed string of at most 50 characters,
\* in the order of the decoded array with the non-strings dropped.
C23_DraftNormalized ==
  C23_DraftReturned =>
    /\ Len(initialTags) <= 10
    /\ Len(initialTags) =
         IF Cardinality(C23_KeptPositions) < 10 THEN Cardinality(C23_KeptPositions) ELSE 10
    /\ \A k \in 1..Len(initialTags) :
         /\ initialTags[k] # <<>>
         /\ Len(initialTags[k]) <= 50
         /\ initialTags[k] = ToLowerCase(initialTags[k])
         /\ initialTags[k] = Trim(initialTags[k])
         /\ initialTags[k] =
              Trim(ToLowerCase(draftReply.elems[Nth(C23_KeptPositions, k)].value))

C23_Witness ==
  /\ pc \in {"awaitFilter", "done"}
  /\ draftReply = Reply("array", LongDraft)
  /\ Len(initialTags) = 10
  /\ initialTags[1] = w_clean
  /\ Cardinality(C23_KeptPositions) > 10

\* C24: on a successful filter call the result is the protected tags followed
\* by the surviving candidates, and every tag the filter returns is a member
\* of the draft it was given, whatever the service replies.
C24_FilterOutputWithinDraft ==
  (Logged("reconcile") /\ filterReply.kind = "array") =>
    LET protected == protectedTagsOf(initialTags, existingMatches)
    IN  /\ \/ filteredTags = initialTags
           \/ SubSeq(filteredTags, 1, Len(protected)) = protected
        /\ \A k \in 1..Len(filteredTags) : ArrayIncludes(initialTags, filteredTags[k])

\* the place of a stage in the pipeline
C25_Rank(op) ==
  CASE op = "getExistingTags" -> 1
    [] op = "draft" -> 2
    [] op = "filter" -> 3
    [] op = "reconcile" -> 4

\* C25: within one generateTags invocation the stages run strictly in the
\* order corpus fetch and scoring, draft call, filter call, reconciliation,
\* each at most once; the draft call is issued only after scoring finished
\* (it carries the scored matches), the filter call only after the draft call
\* returned; with manual tags the same pipeline runs once and the manual tags
\* are put in front of its result.
C25_StagesInOrder ==
  /\ \A i, j \in 1..Len(log) : i < j => C25_Rank(log[i].op) < C25_Rank(log[j].op)
  /\ \A i \in 1..Len(log) :
       /\ log[i].op = "draft" =>
            /\ pc \notin {"idle", "awaitStore"}
            /\ Logged("getExistingTags") => storeReply = "tags" \/ storeReply = "throws"
            /\ log[i].arg = TagsOf(existingMatchesWithScores)
       /\ log[i].op = "filter" =>
            /\ Logged("draft")
            /\ draftReply # NoReply
            /\ log[i].arg = candidateTagsOf(initialTags, existingMatches)
       /\ log[i].op = "reconcile" =>
            /\ Logged("draft")
            /\ draftReply # NoReply
            /\ Logged("filter") => filterReply # NoReply
            /\ log[i].arg = filteredTags
  /\ pc = "done" =>
       /\ Logged("draft") /\ Logged("reconcile")
       /\ req.manualTags # <<>> => result = Slice0(req.manualTags \o hybridTags, 8)

C25_Witness ==
  /\ pc = "done"
  /\ req.manualTags = <<w_React>>
  /\ Len(log) = 4
  /\ existingMatchesWithScores # <<>>
  /\ result = <<w_React>> \o hybridTags

\* the matches of the invocation in progress, from everything it was given
\* except the existingTags argument
C26_Scores ==
  findTagsByKeywordsWithScores(req.title, req.description, req.teamId,
                               [throws |-> storeReply = "throws", tags |-> corpus]).scores

\* what the invocation in progress has computed and sent, as a function of the
\* matches, the options and the service replies
C26_Determined ==
  /\ pc = "awaitDraft" => existingMatchesWithScores = C26_Scores
  /\ \A i \in 1..Len(log) :
       /\ log[i].op = "getExistingTags" => log[i].arg = <<req.teamId>>
       /\ log[i].op = "draft" => log[i].arg = TagsOf(existingMatchesWithScores)
       /\ log[i].op = "filter" =>
            log[i].arg = candidateTagsOf(generateWithLLM(draftReply).tags,
                                         TagsOf(existingMatchesWithScores))
  /\ pc = "done" =>
       result = generateTagsResult(req.manualTags,
                  addHighScoringExistingTags(
                    filterTagsBySpecificity(generateWithLLM(draftReply).tags,
                                            TagsOf(existingMatchesWithScores),
                                            filterReply).tags,
                    existingMatchesWithScores))

\* once scoring has finished the matches and what they were computed from stay
C26_MatchesKept ==
  pc \in {"awaitDraft", "awaitFilter"} =>
    UNCHANGED <<existingMatchesWithScores, req, corpus, storeReply>>

\* C26: the result of generateTags does not depend on the existingTags
\* argument: the matches are the ones scored from title, description and the
\* corpus found by team id, and they, both prompts and the returned list are
\* determined by the content, the options, the corpus and the service
\* replies, so two invocations that differ only in that argument agree on them.
C26_HintIgnored == []C26_Determined /\ [][C26_MatchesKept]_vars

C26_Witness ==
  /\ pc = "done"
  /\ req.existingTags = <<w_clean>>
  /\ req.teamId = NoTeam
  /\ Logged("filter")
  /\ ~ArrayIncludes(result, w_clean)

\* C27: bookmarks are per user: when createBookmark by one user resolves for
\* a URL another user has bookmarked, the other user's stored bookmark (title,
\* description, tags, owner) is unchanged, the bookmark returned is owned by
\* the caller, and a later findByUrl(url, caller) finds it.
C27_BookmarksPerUser ==
  (svcPc = "resolved" /\ svcKind = "create") =>
    /\ \A row \in svcBefore : row.userId # svcReq.userId => row \in bookmarks
    /\ \A row \in svcReturned : row.userId = svcReq.userId
    /\ \A returned \in svcReturned :
         \E row \in RowsByUrl(bookmarks, svcReq.url, svcReq.userId) :
           row.id = returned.id

\* C28: for every process_bookmark event processBookmarkAsync posts exactly
\* one message to response_url: the success message if and only if
\* createBookmark resolved with the saved bookmark, otherwise the error
\* message; a saved bookmark is never reported as an error.
C28_ExactlyOneMessage ==
  hPc \in {"resolved", "rejected"} =>
    /\ Len(hPosts) = 1
    /\ hPosts[1].kind = "success" <=> hSaved
    /\ hSaved => \A i \in 1..Len(hPosts) : hPosts[i].kind # "error"

\* C29: the private Lambda handler never throws: it returns a response with
\* success = true and the result, or success = false and an error message;
\* invokeLambda throws a LambdaError for every success = false response, empty
\* payload or invocation failure, and returns data only from a response with
\* success = true.
C29_FailuresBecomeLambdaErrors ==
  /\ lPc \in {"responded", "settled"} /\ lHandler # NoHandlerRun =>
       /\ ~lHandler.threw
       /\ \/ lHandler.response.success /\ lHandler.response.data \in {"rows", "null"}
          \/ /\ ~lHandler.response.success
             /\ lHandler.response.error \notin {"none", ""}
             /\ lHandler.response.data = "none"
       /\ lRequest \notin PrivateLambdaOperation => ~lHandler.response.success
  /\ lPc = "settled" =>
       /\ lOutcome.kind \in {"returned", "LambdaError"}
       /\ lOutcome.kind = "returned" =>
            /\ lHandler.response.success
            /\ lOutcome.data = lHandler.response.data
       /\ (lHandler # NoHandlerRun /\ ~lHandler.response.success) =>
            lOutcome.kind = "LambdaError"

C29_Witness ==
  /\ lPc = "settled"
  /\ lRequest = "saveBookmark"
  /\ lHandler.response = LambdaResponse(FALSE, "none", "Failed to save bookmark")
  /\ lOutcome.kind = "LambdaError"
  /\ invokesMade = MaxInvokes

\* C30: under any interleaving of concurrent operations on one repository
\* instance, first calls included, getPool constructs at most one Pool between
\* construction and close(), and every operation releases the client it
\* acquired exactly once, on success and on error.
C30_OnePoolAndOneRelease ==
  /\ poolsBuilt <= 1
  /\ \A client \in 1..Len(released) : released[client] <= 1
  /\ \A p \in Ops :
       (opPc[p] \in {"resolved", "rejected"} /\ opClient[p] # 0) =>
         released[opClient[p]] = 1
  /\ \A p \in Ops : opPc[p] = "awaitQuery" => released[opClient[p]] = 0

====
